---- MODULE Spec2Model ----
(***************************************************************************)
(* A model of the text front-end and inference driver of sbv2-onnx-server: *)
(* Chinese G2P with its word2ph reconciliation (nlp/chinese/g2p.rs), the   *)
(* BERT word2ph alignment and the assist-text LRU (nlp/bert.rs), and the   *)
(* inference driver (model/mod.rs).                                        *)
(*                                                                         *)
(* Characters are modelled by class: "c" a CJK ideograph (3 bytes of       *)
(* UTF-8), "p" an ASCII punctuation mark of PUNCTUATIONS (1 byte), "s" an  *)
(* ASCII whitespace character (1 byte) and "u" a non-ASCII Unicode         *)
(* whitespace character such as U+3000 (3 bytes), which the normalizer's   *)
(* \s class keeps.                                                         *)
(***************************************************************************)
EXTENDS Integers, Sequences, FiniteSets, TLC

\* ------------------------------------------------------------------ bounds
MaxText == 3
MaxSeg == 3
MaxAlignText == 2
MaxTok == 4
MaxCap == 2
MaxOps == 5
MaxNorm == 3
MaxToken == 3
NumReq == 2

VARIABLES
    g_text,      \* g2p: the argument `text`
    g_seg,       \* g2p: what the per-sentence stage produced, all sentences concatenated
    g_pc,        \* g2p: "call" | "ok" | "err"
    g_phones,    \* g2p: returned phones
    g_tones,     \* g2p: returned tones
    g_word2ph,   \* g2p: returned word2ph
    a_text,      \* align_word2ph: the argument `text`
    a_word2ph,   \* align_word2ph: the argument `word2ph`
    a_offsets,   \* align_word2ph: encoding.get_offsets(), one <<start, end>> per token
    a_pc,        \* align_word2ph: "tokenize" | "ok" | "err"
    a_result,    \* align_word2ph: the returned vector
    i_pc,        \* infer_chinese: "idle" | "g2p" | "blank" | "bert" | "align" | "acoustic" | "done" | "error"
    i_add_blank, \* infer_chinese: hps.data.add_blank
    i_phone_ids, \* infer_chinese: phone_ids
    i_tone_ids,  \* infer_chinese: tone_ids
    i_lang_ids,  \* infer_chinese: lang_ids
    i_word2ph,   \* infer_chinese: the local `mut word2ph`
    i_offsets,   \* BertExtractor::extract: the offsets of the encoding of the text
    i_frames,    \* infer_chinese: `frames`, the columns of the BERT feature matrix
    i_stages,    \* history: the stages of the request that have run, in order
    i_bert_word2ph, \* history: the word2ph argument of BertExtractor::extract
    c_entries,   \* AssistCache.entries: key -> value (a value is named by the time it was made)
    c_order,     \* AssistCache.order
    c_capacity,  \* AssistCache.capacity
    c_clock,     \* history: the number of cache operations so far
    c_used,      \* history: per key, the time of its latest insert or get hit (0: never)
    r_pc,        \* per request worker: where it is in synthesize / infer_chinese
    r_assist,    \* per request worker: the trimmed assist text (a cache key), 0 for none
    r_mean,      \* per request worker: the style mean cached_style_mean returned, 0 for none
    m_assist,    \* the owner of the assist_cache mutex, 0 when free
    r_missed,    \* history, per request worker: its first check of the assist cache missed
    r_word,      \* per request worker: the word of the memo lookup it is in
    m_english,   \* the owner of the ENGLISH_G2P_CACHE mutex, 0 when free
    m_sandhi,    \* the owner of the mutex of CACHE in finals_tone3_for_word, 0 when free
    english_g2p_cache,  \* the keys of ENGLISH_G2P_CACHE
    finals_cache,       \* the keys of CACHE in finals_tone3_for_word
    h_req,       \* create_speech: the payload of the request
    h_pc,        \* create_speech: "idle" | "awaiting" | "responded" | "cancelled"; "direct" when
                 \* synthesize was called without it
    h_status,    \* create_speech: the HTTP status of the response, 0 while there is none
    w_pc,        \* the blocking task: "none" | "queued" | "inference" | "postprocess" | "finished"
    w_result,    \* the blocking task: what it returned, "none" before
    w_infer,     \* history: infer_chinese was called
    h_dropped_at, \* history: where the blocking task was when the request was cancelled
    n_text,      \* normalize_text: the argument
    n_once,      \* normalize_text(text)
    n_twice,     \* normalize_text(normalize_text(text))
    n_pc,        \* "idle" | "call" | "once" | "twice"
    e_cache,     \* ENGLISH_G2P_CACHE: token -> result
    e_token,     \* g2p_word: the argument of the latest call
    e_result,    \* g2p_word: what the latest call returned
    e_hit,       \* history: the latest call returned from the memo
    e_pc,        \* "idle" | "first" | "second" | "done"
    y_word,      \* process_sentence: the characters of the word whose syllables are mapped
    y_syllables, \* process_sentence: the SyllableInfo of each character
    y_phones,    \* process_sentence: phones pushed so far
    y_tones,     \* process_sentence: tones pushed so far
    y_word2ph,   \* process_sentence: word2ph entries pushed so far
    y_pc,        \* "idle" | "call" | "mapping" | "ok" | "err"
    k_value,     \* convert_integer: the argument
    k_result,    \* convert_integer: the numerals returned
    k_pc,        \* "idle" | "call" | "done"
    t_word,      \* modified_tone: the characters of the argument `word`
    t_pos,       \* modified_tone: the argument `pos`
    t_finals,    \* modified_tone: the argument `finals`, one per character
    t_first,     \* split_word: the shortest token the tokenizer gave, <<>> before the call
    t_before,    \* history: the finals handed to three_sandhi
    t_result,    \* modified_tone: the finals returned
    t_pc,        \* "idle" | "call" | "done"
    s_hps,       \* TtsProject::load: style2id and num_styles of config.json as written
    s_rows,      \* TtsProject::load: the row count of style_vectors.npy
    s_style2id,  \* TtsProject: style2id
    s_default,   \* TtsProject: default_style_id
    s_pc,        \* "idle" | "loaded" | "failed"
    s_name,      \* make_style_vector: the argument `style_name`, <<>> for None
    s_out,       \* make_style_vector: "none" | "ok" | "not found" | "out of range"
    p_seg,       \* pre_merge_for_modify: the argument `seg`, (word, pos) pairs
    p_out,       \* pre_merge_for_modify: the pairs returned
    p_pc         \* "idle" | "call" | "done"

g2pVars == <<g_text, g_seg, g_pc, g_phones, g_tones, g_word2ph>>

alignVars == <<a_text, a_word2ph, a_offsets, a_pc, a_result>>

inferVars ==
    <<i_pc, i_add_blank, i_phone_ids, i_tone_ids, i_lang_ids, i_word2ph, i_offsets, i_frames,
      i_stages, i_bert_word2ph>>

cacheVars == <<c_entries, c_order, c_capacity, c_clock, c_used>>

memoVars == <<r_word, m_english, m_sandhi, english_g2p_cache, finals_cache>>

reqVars == <<r_pc, r_assist, r_mean, m_assist, r_missed, memoVars>>

httpVars == <<h_req, h_pc, h_status, w_pc, w_result, w_infer, h_dropped_at>>

\* the variables outside the first five groups, and the first five groups
normVars == <<n_text, n_once, n_twice, n_pc>>

engVars == <<e_cache, e_token, e_result, e_hit, e_pc>>

coreVars == <<g2pVars, alignVars, inferVars, cacheVars, reqVars>>

sylVars == <<y_word, y_syllables, y_phones, y_tones, y_word2ph, y_pc>>

numVars == <<k_value, k_result, k_pc>>

sandhiVars == <<t_word, t_pos, t_finals, t_first, t_before, t_result, t_pc>>

styleVars == <<s_hps, s_rows, s_style2id, s_default, s_pc, s_name, s_out>>

mergeVars == <<p_seg, p_out, p_pc>>

\* the groups of the later sections
lateVars == <<sylVars, numVars, sandhiVars, styleVars, mergeVars>>

restVars == <<httpVars, normVars, engVars, lateVars>>

earlyVars == <<coreVars, httpVars, normVars, engVars>>

\* what the actions of each later section leave alone
sylOthers == <<earlyVars, numVars, sandhiVars, styleVars, mergeVars>>

numOthers == <<earlyVars, sylVars, sandhiVars, styleVars, mergeVars>>
sandhiOthers == <<earlyVars, sylVars, numVars, styleVars, mergeVars>>
styleOthers == <<earlyVars, sylVars, numVars, sandhiVars, mergeVars>>
mergeOthers == <<earlyVars, sylVars, numVars, sandhiVars, styleVars>>


vars == <<coreVars, restVars>>

\* ------------------------------------------------------------ small helpers
Min(a, b) == IF a < b THEN a ELSE b

RECURSIVE Sum(_)
Sum(s) == IF s = <<>> THEN 0 ELSE Head(s) + Sum(Tail(s))

Repeat(x, n) == [i \in 1..n |-> x]

SeqsUpTo(S, n) == UNION {[1..k -> S] : k \in 0..n}

\* ---------------------------------------------------------------- characters
CharClasses == {"c", "p", "s", "u"}

is_punctuation_char(ch) == ch = "p"

is_ascii_whitespace(ch) == ch = "s"

is_whitespace(ch) == ch \in {"s", "u"}

\* str.trim().is_empty()
TrimIsEmpty(str) == \A i \in 1..Len(str) : is_whitespace(str[i])

char_count(text) == Len(text)

\* ------------------------------------------------------------ split_sentences
RECURSIVE SplitFrom(_, _, _)
SplitFrom(text, i, current) ==
    IF i > Len(text)
    THEN IF ~TrimIsEmpty(current) THEN <<current>> ELSE <<>>
    ELSE LET cur == Append(current, text[i]) IN
         IF is_punctuation_char(text[i])
         THEN (IF ~TrimIsEmpty(cur) THEN <<cur>> ELSE <<>>) \o SplitFrom(text, i + 1, <<>>)
         ELSE SplitFrom(text, i + 1, cur)

split_sentences(text) == SplitFrom(text, 1, <<>>)

\* ----------------------------------------------------------- process_sentence
\* What one source character can contribute in process_sentence: a whitespace word
\* pushes a 0 and no phone; a punctuation mark or a character without a pinyin reading is
\* emitted as itself with tone 0 (the latter is no symbol of the inventory, "?"); a
\* syllable found in the pinyin table yields its phones with its tone.
Contribs ==
    { [phs |-> <<>>, tone |-> 0],
      [phs |-> <<",">>, tone |-> 0],
      [phs |-> <<"?">>, tone |-> 0],
      [phs |-> <<"n", "i">>, tone |-> 3] }

RECURSIVE SegPhones(_)
SegPhones(seg) == IF seg = <<>> THEN <<>> ELSE Head(seg).phs \o SegPhones(Tail(seg))

RECURSIVE SegTones(_)
SegTones(seg) ==
    IF seg = <<>> THEN <<>>
    ELSE Repeat(Head(seg).tone, Len(Head(seg).phs)) \o SegTones(Tail(seg))

SegWord2ph(seg) == [i \in 1..Len(seg) |-> Len(seg[i].phs)]

\* The outputs the per-sentence loop of g2p can accumulate over the sentences of text:
\* the segmenter and the pre-merge decide how many per-character entries come out (the
\* merges can drop or repeat characters), so any number of entries up to MaxSeg; none
\* when split_sentences yields no sentence.
SegOutputs(text) ==
    IF split_sentences(text) = <<>> THEN {<<>>} ELSE SeqsUpTo(Contribs, MaxSeg)

\* ------------------------------------------------------ g2p: the reconciliation
\* FixLength without the truncation of a too long vector
FixLength_PadOnly(w, expected_len) ==
    IF Len(w) < expected_len THEN w \o Repeat(0, expected_len - Len(w)) ELSE w

\* g2p.rs:63-69
FixLength(w, expected_len) ==
    IF Len(w) < expected_len THEN w \o Repeat(0, expected_len - Len(w))
    ELSE IF Len(w) > expected_len THEN SubSeq(w, 1, expected_len)
    ELSE w

\* g2p.rs:70-75
PinSentinels(w) == IF w = <<>> THEN w ELSE [[w EXCEPT ![1] = 1] EXCEPT ![Len(w)] = 1]

\* g2p.rs:77-85; character i (1-based) has pos = i (0-based), index i + 1 here
ZeroWhitespace(w, text) ==
    [k \in 1..Len(w) |->
        IF k >= 2 /\ k - 1 <= Len(text) /\ is_ascii_whitespace(text[k - 1]) /\ k - 1 < Len(w) - 1
        THEN 0 ELSE w[k]]

\* IncLoop without the skip of whitespace-aligned positions
RECURSIVE IncLoop_NoWsSkip(_, _, _, _)
IncLoop_NoWsSkip(w, text, i, remaining) ==
    IF i > Len(text) \/ remaining = 0 THEN [w |-> w, remaining |-> remaining]
    ELSE IF i >= Len(w) - 1 THEN IncLoop_NoWsSkip(w, text, i + 1, remaining)
    ELSE IncLoop_NoWsSkip([w EXCEPT ![i + 1] = @ + 1], text, i + 1, remaining - 1)

\* g2p.rs:92-105, the loop from character i on
RECURSIVE IncLoop(_, _, _, _)
IncLoop(w, text, i, remaining) ==
    IF i > Len(text) \/ remaining = 0 THEN [w |-> w, remaining |-> remaining]
    ELSE IF i >= Len(w) - 1 THEN IncLoop(w, text, i + 1, remaining)
    ELSE IF is_ascii_whitespace(text[i]) THEN IncLoop(w, text, i + 1, remaining)
    ELSE IncLoop([w EXCEPT ![i + 1] = @ + 1], text, i + 1, remaining - 1)

\* Distribute without the residue going to the last element
Distribute_DropResidue(w, text, deficit) == IncLoop(w, text, 1, deficit).w

\* g2p.rs:91-110
Distribute(w, text, deficit) ==
    LET r == IncLoop(w, text, 1, deficit) IN
    IF r.remaining > 0 /\ r.w # <<>>
    THEN [r.w EXCEPT ![Len(r.w)] = @ + r.remaining]
    ELSE r.w

\* g2p.rs:113-130, the reversed loop from character i down
RECURSIVE DecLoop(_, _, _, _)
DecLoop(w, text, i, remaining) ==
    IF i < 1 \/ remaining = 0 THEN [w |-> w, remaining |-> remaining]
    ELSE IF i >= Len(w) - 1 THEN DecLoop(w, text, i - 1, remaining)
    ELSE IF w[i + 1] = 0 THEN DecLoop(w, text, i - 1, remaining)
    ELSE IF is_ascii_whitespace(text[i]) THEN DecLoop(w, text, i - 1, remaining)
    ELSE LET reduce == Min(remaining, w[i + 1]) IN
         DecLoop([w EXCEPT ![i + 1] = @ - reduce], text, i - 1, remaining - reduce)

\* g2p.rs:112-136
Absorb(w, text, surplus) ==
    LET r == DecLoop(w, text, Len(text), surplus) IN
    IF r.remaining > 0 /\ r.w # <<>>
    THEN [r.w EXCEPT ![Len(r.w)] = @ - Min(r.remaining, @)]
    ELSE r.w

\* g2p.rs:87-138
Reconcile(w, text, target) ==
    LET sum == Sum(w) IN
    IF sum = target THEN w
    ELSE IF sum < target THEN Distribute(w, text, target - sum)
    ELSE Absorb(w, text, sum - target)

\* g2p.rs:140-147
FinalSentinels(w) ==
    IF w = <<>> THEN w
    ELSE LET f == [w EXCEPT ![1] = 1] IN
         IF f[Len(f)] = 0 THEN [f EXCEPT ![Len(f)] = 1] ELSE f

\* g2p.rs:56-85: word2ph as it enters the sum reconciliation
BeforeReconcile(text, seg) ==
    ZeroWhitespace(PinSentinels(FixLength(<<1>> \o SegWord2ph(seg) \o <<1>>,
                                          char_count(text) + 2)), text)

\* g2p.rs:56-149: the result of g2p(text) when the per-sentence loop accumulated seg
G2pResult(text, seg) ==
    LET phones == <<"_">> \o SegPhones(seg) \o <<"_">>
        tones == <<0>> \o SegTones(seg) \o <<0>>
        w3 == Reconcile(BeforeReconcile(text, seg), text, Len(phones))
    IN [phones |-> phones, tones |-> tones, word2ph |-> FinalSentinels(w3)]

\* ------------------------------------------------------------------ g2p: actions
Texts(n) == SeqsUpTo(CharClasses, n)

G2pIdle ==
    /\ g_text = <<>>
    /\ g_seg = <<>>
    /\ g_pc = "idle"
    /\ g_phones = <<>>
    /\ g_tones = <<>>
    /\ g_word2ph = <<>>

AlignIdle ==
    /\ a_text = <<>>
    /\ a_word2ph = <<>>
    /\ a_offsets = <<>>
    /\ a_pc = "idle"
    /\ a_result = <<>>

CacheKeys == 1..(MaxCap + 1)

Workers == 1..NumReq

ReqIdle ==
    /\ r_pc = [p \in Workers |-> "idle"]
    /\ r_assist = [p \in Workers |-> 0]
    /\ r_mean = [p \in Workers |-> 0]
    /\ m_assist = 0
    /\ r_missed = [p \in Workers |-> FALSE]
    /\ r_word = [p \in Workers |-> ""]
    /\ m_english = 0
    /\ m_sandhi = 0
    /\ english_g2p_cache = {}
    /\ finals_cache = {}

\* The empty function, an empty HashMap
EmptyMap == [k \in {} |-> 0]

\* The payload before a request has come: every optional field absent
NoRequest ==
    [audio_format |-> "wav", input |-> <<>>,
     voice |-> <<>>, style |-> <<>>, style_weight |-> <<>>, assist_weight |-> <<>>,
     length_scale |-> <<>>, speed |-> <<>>]

HttpIdle ==
    /\ h_req = NoRequest
    /\ h_pc = "idle"
    /\ h_status = 0
    /\ w_pc = "none"
    /\ w_result = "none"
    /\ w_infer = FALSE
    /\ h_dropped_at = "none"

NormIdle ==
    /\ n_text = <<>>
    /\ n_once = <<>>
    /\ n_twice = <<>>
    /\ n_pc = "idle"

NoResult == [phones |-> <<>>, tones |-> <<>>, char_phone_counts |-> <<>>]

EngIdle ==
    /\ e_cache = EmptyMap
    /\ e_token = <<>>
    /\ e_result = NoResult
    /\ e_hit = FALSE
    /\ e_pc = "idle"

SylIdle ==
    /\ y_word = <<>>
    /\ y_syllables = <<>>
    /\ y_phones = <<>>
    /\ y_tones = <<>>
    /\ y_word2ph = <<>>
    /\ y_pc = "idle"

NumIdle ==
    /\ k_value = 0
    /\ k_result = <<>>
    /\ k_pc = "idle"

SandhiIdle ==
    /\ t_word = <<>>
    /\ t_pos = ""
    /\ t_finals = <<>>
    /\ t_first = <<>>
    /\ t_before = <<>>
    /\ t_result = <<>>
    /\ t_pc = "idle"

StyleIdle ==
    /\ s_hps = [style2id |-> EmptyMap, num_styles |-> 0]
    /\ s_rows = 0
    /\ s_style2id = EmptyMap
    /\ s_default = 0
    /\ s_pc = "idle"
    /\ s_name = <<>>
    /\ s_out = "none"

MergeIdle ==
    /\ p_seg = <<>>
    /\ p_out = <<>>
    /\ p_pc = "idle"

LateIdle == SylIdle /\ NumIdle /\ SandhiIdle /\ StyleIdle /\ MergeIdle

RestIdle == HttpIdle /\ NormIdle /\ EngIdle /\ LateIdle

CacheIdle ==
    /\ c_entries = EmptyMap
    /\ c_order = <<>>
    /\ c_capacity = 0
    /\ c_clock = 0
    /\ c_used = [k \in CacheKeys |-> 0]

InferIdle ==
    /\ i_pc = "idle"
    /\ i_add_blank = FALSE
    /\ i_phone_ids = <<>>
    /\ i_tone_ids = <<>>
    /\ i_lang_ids = <<>>
    /\ i_word2ph = <<>>
    /\ i_offsets = <<>>
    /\ i_frames = 0
    /\ i_stages = <<>>
    /\ i_bert_word2ph = <<>>

\* nothing of the sections before the later ones has been called
EarlyIdle ==
    /\ G2pIdle /\ AlignIdle /\ InferIdle /\ CacheIdle /\ ReqIdle
    /\ HttpIdle /\ NormIdle /\ EngIdle

SylOthersIdle == EarlyIdle /\ NumIdle /\ SandhiIdle /\ StyleIdle /\ MergeIdle

NumOthersIdle == EarlyIdle /\ SylIdle /\ SandhiIdle /\ StyleIdle /\ MergeIdle

SandhiOthersIdle == EarlyIdle /\ SylIdle /\ NumIdle /\ StyleIdle /\ MergeIdle

StyleOthersIdle == EarlyIdle /\ SylIdle /\ NumIdle /\ SandhiIdle /\ MergeIdle

MergeOthersIdle == EarlyIdle /\ SylIdle /\ NumIdle /\ SandhiIdle /\ StyleIdle

G2pCalled ==
    /\ g_text \in Texts(MaxText)
    /\ g_seg = <<>>
    /\ g_pc = "call"
    /\ g_phones = <<>>
    /\ g_tones = <<>>
    /\ g_word2ph = <<>>

InitG2p == G2pCalled /\ AlignIdle /\ InferIdle /\ CacheIdle /\ ReqIdle /\ RestIdle

\* g2p returns Ok
G2pOk ==
    /\ g_pc = "call"
    /\ \E seg \in SegOutputs(g_text) :
         LET r == G2pResult(g_text, seg) IN
         /\ g_seg' = seg
         /\ g_phones' = r.phones
         /\ g_tones' = r.tones
         /\ g_word2ph' = r.word2ph
    /\ g_pc' = "ok"
    /\ UNCHANGED <<g_text, alignVars, inferVars, cacheVars, reqVars, restVars>>

\* process_sentence fails on a syllable without phone mapping: g2p returns Err
G2pErr ==
    /\ g_pc = "call"
    /\ split_sentences(g_text) # <<>>
    /\ g_pc' = "err"
    /\ UNCHANGED <<g_text, g_seg, g_phones, g_tones, g_word2ph, alignVars, inferVars, cacheVars, reqVars, restVars>>

NextG2p == G2pOk \/ G2pErr

SpecG2p == InitG2p /\ [][NextG2p]_vars

\* ------------------------------------------------------------ align_word2ph
\* char::len_utf8 of a character of the class
len_utf8(ch) == IF ch \in {"c", "u"} THEN 3 ELSE 1

RECURSIVE ByteLen(_)
ByteLen(text) == IF text = <<>> THEN 0 ELSE len_utf8(Head(text)) + ByteLen(Tail(text))

\* bert.rs:347-356: the byte span and the count of every character (word2ph long enough)
char_spans(text, word2ph) ==
    [i \in 1..Len(text) |->
        LET start == ByteLen(SubSeq(text, 1, i - 1)) IN
        [start |-> start, end |-> start + len_utf8(text[i]), count |-> word2ph[i + 1]]]

\* bert.rs:381-392: the while loop from temp_index (0-based) on
RECURSIVE ScanChars(_, _, _, _, _)
ScanChars(spans, temp_index, start, end, total) ==
    IF temp_index >= Len(spans) THEN [total |-> total, temp_index |-> temp_index]
    ELSE LET c == spans[temp_index + 1] IN
         IF c.end <= start THEN ScanChars(spans, temp_index + 1, start, end, total)
         ELSE IF c.start >= end THEN [total |-> total, temp_index |-> temp_index]
         ELSE ScanChars(spans, temp_index + 1, start, end, total + c.count)

\* AlignLoop with the character cursor left where it was after every token
RECURSIVE AlignLoop_NoCursor(_, _, _, _, _, _)
AlignLoop_NoCursor(spans, offsets, leading, trailing, token_idx, char_index) ==
    IF token_idx >= Len(offsets) THEN <<>>
    ELSE LET start == offsets[token_idx + 1][1]
             end == offsets[token_idx + 1][2]
             rest == AlignLoop_NoCursor(spans, offsets, leading, trailing, token_idx + 1, char_index)
         IN
         IF token_idx = 0 THEN <<leading>> \o rest
         ELSE IF token_idx = Len(offsets) - 1 THEN <<trailing>> \o rest
         ELSE IF start = 0 /\ end = 0 THEN <<0>> \o rest
         ELSE <<ScanChars(spans, char_index, start, end, 0).total>> \o rest

\* bert.rs:362-395: the loop over the tokens from token_idx (0-based) on
RECURSIVE AlignLoop(_, _, _, _, _, _)
AlignLoop(spans, offsets, leading, trailing, token_idx, char_index) ==
    IF token_idx >= Len(offsets) THEN <<>>
    ELSE LET start == offsets[token_idx + 1][1]
             end == offsets[token_idx + 1][2]
         IN
         IF token_idx = 0
         THEN <<leading>> \o AlignLoop(spans, offsets, leading, trailing, token_idx + 1, char_index)
         ELSE IF token_idx = Len(offsets) - 1
         THEN <<trailing>> \o AlignLoop(spans, offsets, leading, trailing, token_idx + 1, char_index)
         ELSE IF start = 0 /\ end = 0
         THEN <<0>> \o AlignLoop(spans, offsets, leading, trailing, token_idx + 1, char_index)
         ELSE LET r == ScanChars(spans, char_index, start, end, 0) IN
              <<r.total>> \o AlignLoop(spans, offsets, leading, trailing, token_idx + 1, r.temp_index)

\* bert.rs:336-360: the conditions under which align_word2ph bails
AlignBails(text, word2ph, offsets) ==
    \/ word2ph = <<>>
    \/ offsets = <<>>
    \/ \E idx \in 0..(Len(text) - 1) : idx + 1 >= Len(word2ph)
    \/ Len(word2ph) # Len(text) + 2

\* bert.rs:335-398
align_word2ph(text, word2ph, offsets) ==
    IF AlignBails(text, word2ph, offsets) THEN [ok |-> FALSE, aligned |-> <<>>]
    ELSE [ok |-> TRUE,
          aligned |-> AlignLoop(char_spans(text, word2ph), offsets,
                                word2ph[1], word2ph[Len(word2ph)], 0, 0)]

\* The offsets a tokenizer can give the next token after those in offsets: (0, 0) for a
\* special token, or a non-empty byte range of the text that starts where the last
\* range ended or later (tokens come in text order and do not overlap), or the last
\* range once more (a character the normalizer expanded into several tokens).
NextOffsets(text, offsets) ==
    LET n == ByteLen(text)
        real == {k \in 1..Len(offsets) : offsets[k][2] > 0}
        last == IF real = {} THEN <<0, 0>>
                ELSE offsets[CHOOSE k \in real : \A j \in real : j <= k]
    IN {<<0, 0>>} \cup {last} \cup {o \in (last[2]..n) \X (last[2]..n) : o[1] < o[2]}

\* The texts align_word2ph is applied to: it reads a character only through its
\* len_utf8, so one class of each byte length
AlignTexts == SeqsUpTo({"c", "p"}, MaxAlignText)

\* The word2ph vectors handed to align_word2ph for a text: of the right length, the
\* leading sentinel 1 and the trailing one 1 or more as g2p leaves them, every character
\* with or without phones; and for the bail paths the empty one, one that is short and
\* one that is long
AlignWord2phs(text) ==
    {<<1>> \o w \o <<t>> : w \in [1..Len(text) -> {0, 1}], t \in {1, 2}}
        \cup {<<>>, Repeat(1, Len(text) + 1), Repeat(1, Len(text) + 3)}

InitAlign ==
    /\ a_text \in AlignTexts
    /\ a_word2ph \in AlignWord2phs(a_text)
    /\ a_offsets = <<>>
    /\ a_pc = "tokenize"
    /\ a_result = <<>>
    /\ G2pIdle
    /\ InferIdle
    /\ CacheIdle
    /\ ReqIdle
    /\ RestIdle

\* tokenizer.encode: the encoding gets one more token
TokenizerEmit ==
    /\ a_pc = "tokenize"
    /\ Len(a_offsets) < MaxTok
    /\ \E o \in NextOffsets(a_text, a_offsets) : a_offsets' = Append(a_offsets, o)
    /\ UNCHANGED <<a_text, a_word2ph, a_pc, a_result, g2pVars, inferVars, cacheVars, reqVars, restVars>>

\* align_word2ph(text, word2ph, &encoding)
AlignCall ==
    /\ a_pc = "tokenize"
    /\ LET r == align_word2ph(a_text, a_word2ph, a_offsets) IN
       /\ a_pc' = IF r.ok THEN "ok" ELSE "err"
       /\ a_result' = r.aligned
    /\ UNCHANGED <<a_text, a_word2ph, a_offsets, g2pVars, inferVars, cacheVars, reqVars, restVars>>

NextAlign == TokenizerEmit \/ AlignCall

SpecAlign == InitAlign /\ [][NextAlign]_vars

\* ------------------------------------------------------------ infer_chinese
\* nlp/mod.rs:30-36: the ids of the symbols of the inventory ("?" is none of them)
SYMBOL_ID_MAP == [sym \in {"_", "i", "n", ","} |->
                    CASE sym = "_" -> 0 [] sym = "i" -> 1 [] sym = "n" -> 2 [] sym = "," -> 3]

\* nlp/mod.rs:46-55: LANGUAGE_ID_MAP["ZH"] and LANGUAGE_TONE_START_MAP["ZH"]
LanguageIdZh == 0
ToneStartZh == 0

\* intersperse without the closing blank
intersperse_NoClosing(values, blank) ==
    [k \in 1..(2 * Len(values)) |-> IF k % 2 = 1 THEN blank ELSE values[k \div 2]]

\* model/mod.rs:360-368
intersperse(values, blank) ==
    [k \in 1..(2 * Len(values) + 1) |-> IF k % 2 = 1 THEN blank ELSE values[k \div 2]]

\* the doubling without the 1 added to the first entry
DoubleWord2ph_NoFirst(w) == [k \in 1..Len(w) |-> w[k] * 2]

\* model/mod.rs:191-196
DoubleWord2ph(w) ==
    LET d == [k \in 1..Len(w) |-> w[k] * 2] IN
    IF d = <<>> THEN d ELSE [d EXCEPT ![1] = @ + 1]

\* The encodings the BERT tokenizer gives a text with special tokens added: [CLS] and
\* [SEP] with offsets (0, 0) around the tokens of the text; a whitespace character
\* belongs to no token, every other character to exactly one, and a token covers one
\* character or a run of adjacent ones. The tokens of the text from character i on:
RECURSIVE TextTokens(_, _)
TextTokens(text, i) ==
    IF i > Len(text) THEN {<<>>}
    ELSE IF is_whitespace(text[i]) THEN TextTokens(text, i + 1)
    ELSE LET start == ByteLen(SubSeq(text, 1, i - 1))
             ends == {j \in i..Len(text) : \A k \in i..j : ~is_whitespace(text[k])}
         IN UNION {{<<<<start, ByteLen(SubSeq(text, 1, j))>>>> \o rest :
                      rest \in TextTokens(text, j + 1)} : j \in ends}

Encodings(text) == {<<<<0, 0>>>> \o toks \o <<<<0, 0>>>> : toks \in TextTokens(text, 1)}

InitInfer ==
    /\ G2pCalled
    /\ AlignIdle
    /\ i_pc = "g2p"
    /\ i_add_blank \in BOOLEAN
    /\ i_phone_ids = <<>>
    /\ i_tone_ids = <<>>
    /\ i_lang_ids = <<>>
    /\ i_word2ph = <<>>
    /\ i_offsets = <<>>
    /\ i_frames = 0
    /\ i_stages = <<"normalize">>
    /\ i_bert_word2ph = <<>>
    /\ CacheIdle
    /\ ReqIdle
    /\ RestIdle

\* model/mod.rs:162: g2p returned Err and `?` returns it
InferG2pFailed ==
    /\ i_pc = "g2p"
    /\ g_pc = "err"
    /\ i_pc' = "error"
    /\ i_stages' = Append(i_stages, "g2p")
    /\ UNCHANGED <<i_bert_word2ph, g2pVars, alignVars, cacheVars, reqVars, restVars, i_add_blank, i_phone_ids, i_tone_ids, i_lang_ids,
                   i_word2ph, i_offsets, i_frames>>

\* InferMapPhones that gives an unknown phone symbol the id 0 and goes on
InferMapPhones_IgnoreUnknown ==
    /\ i_pc = "g2p"
    /\ g_pc = "ok"
    /\ i_stages' = i_stages \o <<"g2p", "map">>
    /\ i_pc' = "blank"
    /\ i_phone_ids' = [k \in 1..Len(g_phones) |->
                          IF g_phones[k] \in DOMAIN SYMBOL_ID_MAP
                          THEN SYMBOL_ID_MAP[g_phones[k]] ELSE 0]
    /\ i_tone_ids' = [k \in 1..Len(g_tones) |-> ToneStartZh + g_tones[k]]
    /\ i_lang_ids' = Repeat(LanguageIdZh, Len(g_phones))
    /\ i_word2ph' = g_word2ph
    /\ UNCHANGED <<i_bert_word2ph, g2pVars, alignVars, cacheVars, reqVars, restVars, i_add_blank, i_offsets, i_frames>>

\* model/mod.rs:162-185: the phone, tone and language ids of the g2p result
InferMapPhones ==
    /\ i_pc = "g2p"
    /\ g_pc = "ok"
    /\ i_stages' = i_stages \o <<"g2p", "map">>
    /\ IF \E k \in 1..Len(g_phones) : g_phones[k] \notin DOMAIN SYMBOL_ID_MAP
       THEN /\ i_pc' = "error"
            /\ UNCHANGED <<i_phone_ids, i_tone_ids, i_lang_ids, i_word2ph>>
       ELSE /\ i_pc' = "blank"
            /\ i_phone_ids' = [k \in 1..Len(g_phones) |-> SYMBOL_ID_MAP[g_phones[k]]]
            /\ i_tone_ids' = [k \in 1..Len(g_tones) |-> ToneStartZh + g_tones[k]]
            /\ i_lang_ids' = Repeat(LanguageIdZh, Len(g_phones))
            /\ i_word2ph' = g_word2ph
    /\ UNCHANGED <<i_bert_word2ph, g2pVars, alignVars, cacheVars, reqVars, restVars, i_add_blank, i_offsets, i_frames>>

\* model/mod.rs:187-197
InferAddBlank ==
    /\ i_pc = "blank"
    /\ IF i_add_blank
       THEN /\ i_phone_ids' = intersperse(i_phone_ids, 0)
            /\ i_tone_ids' = intersperse(i_tone_ids, 0)
            /\ i_lang_ids' = intersperse(i_lang_ids, LanguageIdZh)
            /\ i_word2ph' = DoubleWord2ph(i_word2ph)
       ELSE UNCHANGED <<i_phone_ids, i_tone_ids, i_lang_ids, i_word2ph>>
    /\ i_pc' = "bert"
    /\ UNCHANGED <<i_bert_word2ph, i_stages, g2pVars, alignVars, cacheVars, reqVars, restVars, i_add_blank, i_offsets, i_frames>>

\* model/mod.rs:199-205 with bert.rs:68 and 142-205: forward tokenizes the text and runs
\* the BERT session, which returns one feature row per token, or fails
InferBertForward ==
    /\ i_pc = "bert"
    /\ i_stages' = Append(i_stages, "bert")
    /\ i_bert_word2ph' = i_word2ph
    /\ \/ \E enc \in Encodings(g_text) : i_offsets' = enc /\ i_pc' = "align"
       \/ i_offsets' = i_offsets /\ i_pc' = "error"
    /\ UNCHANGED <<g2pVars, alignVars, cacheVars, reqVars, restVars, i_add_blank, i_phone_ids, i_tone_ids, i_lang_ids,
                   i_word2ph, i_frames>>

\* bert.rs:69-111 and model/mod.rs:206-209: the alignment, the check of its length
\* against the feature rows, and the frames of the feature matrix
InferBertAlign ==
    /\ i_pc = "align"
    /\ LET r == align_word2ph(g_text, i_word2ph, i_offsets) IN
       IF ~r.ok \/ Len(i_offsets) # Len(r.aligned)
       THEN i_pc' = "error" /\ UNCHANGED i_frames
       ELSE i_pc' = "acoustic" /\ i_frames' = Sum(r.aligned)
    /\ UNCHANGED <<i_bert_word2ph, i_stages, g2pVars, alignVars, cacheVars, reqVars, restVars, i_add_blank, i_phone_ids, i_tone_ids, i_lang_ids,
                   i_word2ph, i_offsets>>

\* model/mod.rs:211-279: the tensors are built and the acoustic session runs; it returns
\* the waveform or fails
InferAcousticRun ==
    /\ i_pc = "acoustic"
    /\ \/ i_pc' = "done" /\ i_stages' = i_stages \o <<"acoustic", "waveform">>
       \/ i_pc' = "error" /\ i_stages' = Append(i_stages, "acoustic")
    /\ UNCHANGED <<i_bert_word2ph, g2pVars, alignVars, cacheVars, reqVars, restVars, i_add_blank, i_phone_ids, i_tone_ids, i_lang_ids,
                   i_word2ph, i_offsets, i_frames>>

NextInfer ==
    \/ G2pOk
    \/ G2pErr
    \/ InferG2pFailed
    \/ InferMapPhones
    \/ InferAddBlank
    \/ InferBertForward
    \/ InferBertAlign
    \/ InferAcousticRun

SpecInfer == InitInfer /\ [][NextInfer]_vars

\* ------------------------------------------------------------ AssistCache
\* touch that leaves a key already queued where it is
touch_KeepPlace(order, key) ==
    IF \E i \in 1..Len(order) : order[i] = key THEN order ELSE Append(order, key)

\* touch that does not take the key out of the queue first
touch_NoRetain(order, key) == Append(order, key)

\* bert.rs:319-322
touch(order, key) == Append(SelectSeq(order, LAMBDA existing : existing # key), key)

\* HashMap::remove
MapRemove(entries, key) == [k \in (DOMAIN entries) \ {key} |-> entries[k]]

\* HashMap::insert
MapInsert(entries, key, value) ==
    [k \in (DOMAIN entries) \cup {key} |-> IF k = key THEN value ELSE entries[k]]

\* evict that lets one entry more than the capacity stay
RECURSIVE evict_OneMore(_, _, _)
evict_OneMore(entries, order, capacity) ==
    IF Cardinality(DOMAIN entries) > capacity + 1 /\ order # <<>>
    THEN evict_OneMore(MapRemove(entries, Head(order)), Tail(order), capacity)
    ELSE [entries |-> entries, order |-> order]

\* bert.rs:324-332
RECURSIVE evict(_, _, _)
evict(entries, order, capacity) ==
    IF Cardinality(DOMAIN entries) > capacity /\ order # <<>>
    THEN evict(MapRemove(entries, Head(order)), Tail(order), capacity)
    ELSE [entries |-> entries, order |-> order]

\* bert.rs:297-303
AssistCacheNew(capacity) ==
    [entries |-> EmptyMap, order |-> <<>>, capacity |-> IF capacity > 1 THEN capacity ELSE 1]

\* bert.rs:305-311: the cache after get(key); the returned value is entries[key] on a hit
CacheAfterGet(entries, order, key) ==
    IF key \in DOMAIN entries THEN touch(order, key) ELSE order

\* bert.rs:313-317
CacheAfterInsert(entries, order, capacity, key, value) ==
    evict(MapInsert(entries, key, value), touch(order, key), capacity)

InitCache ==
    /\ \E capacity \in 0..MaxCap :
         LET c == AssistCacheNew(capacity) IN
         /\ c_entries = c.entries
         /\ c_order = c.order
         /\ c_capacity = c.capacity
    /\ c_clock = 0
    /\ c_used = [k \in CacheKeys |-> 0]
    /\ G2pIdle
    /\ AlignIdle
    /\ InferIdle
    /\ ReqIdle
    /\ RestIdle

\* AssistCache::get
AssistGet ==
    /\ c_clock < MaxOps
    /\ \E key \in CacheKeys :
         /\ c_order' = CacheAfterGet(c_entries, c_order, key)
         /\ c_used' = IF key \in DOMAIN c_entries
                      THEN [c_used EXCEPT ![key] = c_clock + 1] ELSE c_used
    /\ c_clock' = c_clock + 1
    /\ UNCHANGED <<c_entries, c_capacity, g2pVars, alignVars, inferVars, reqVars, restVars>>

\* AssistCache::insert, of a value made now
AssistInsert ==
    /\ c_clock < MaxOps
    /\ \E key \in CacheKeys :
         LET c == CacheAfterInsert(c_entries, c_order, c_capacity, key, c_clock + 1) IN
         /\ c_entries' = c.entries
         /\ c_order' = c.order
         /\ c_used' = [c_used EXCEPT ![key] = c_clock + 1]
    /\ c_clock' = c_clock + 1
    /\ UNCHANGED <<c_capacity, g2pVars, alignVars, inferVars, reqVars, restVars>>

NextCache == AssistGet \/ AssistInsert

SpecCache == InitCache /\ [][NextCache]_vars

\* ------------------------------------------------- concurrent synthesis requests
\* bert.rs:30; the cache of the model has a capacity up to this one and up to MaxCap
ASSIST_CACHE_CAPACITY == 8

InitRequests ==
    /\ r_pc = [p \in Workers |-> "idle"]
    /\ r_assist = [p \in Workers |-> 0]
    /\ r_mean = [p \in Workers |-> 0]
    /\ m_assist = 0
    /\ r_missed = [p \in Workers |-> FALSE]
    /\ r_word = [p \in Workers |-> ""]
    /\ m_english = 0
    /\ m_sandhi = 0
    /\ english_g2p_cache = {}
    /\ finals_cache = {}
    /\ \E capacity \in 1..Min(ASSIST_CACHE_CAPACITY, MaxCap) :
         LET c == AssistCacheNew(capacity) IN
         /\ c_entries = c.entries
         /\ c_order = c.order
         /\ c_capacity = c.capacity
    /\ c_clock = 0
    /\ c_used = [k \in CacheKeys |-> 0]
    /\ G2pIdle
    /\ AlignIdle
    /\ InferIdle
    /\ RestIdle

\* server.rs:200-201: create_speech hands the synthesize call of one request to a
\* blocking worker thread of its own; the request carries an assist text with a
\* positive weight, or none
SpawnBlockingWith(p, texts) ==
    /\ r_pc[p] = "idle"
    /\ \E assist \in {0} \cup texts : r_assist' = [r_assist EXCEPT ![p] = assist]
    /\ r_mean' = [r_mean EXCEPT ![p] = 0]
    /\ r_pc' = [r_pc EXCEPT ![p] = "g2p"]
    /\ UNCHANGED <<m_assist, r_missed, memoVars, g2pVars, alignVars, inferVars, restVars, cacheVars>>

\* the request's assist text is any of the cache keys
SpawnBlocking(p) == SpawnBlockingWith(p, CacheKeys)

\* The words of the memo lookups
MemoWords == {"w"}

\* model/mod.rs:162: the whole call of g2p as one step: it memoizes the words it
\* looked up (english/mod.rs:124-127, tone_sandhi.rs:17-20) and returns, or fails
G2pCall(p) ==
    /\ r_pc[p] = "g2p"
    /\ \E english \in SUBSET MemoWords : english_g2p_cache' = english_g2p_cache \cup english
    /\ \E finals \in SUBSET MemoWords : finals_cache' = finals_cache \cup finals
    /\ \E ok \in BOOLEAN : r_pc' = [r_pc EXCEPT ![p] = IF ok THEN "forward" ELSE "done"]
    /\ UNCHANGED <<r_assist, r_mean, m_assist, r_missed, r_word, m_english, m_sandhi,
                   g2pVars, alignVars, inferVars, restVars, cacheVars>>

\* The steps of the g2p call that take the mutexes of the two memos.

\* g2p.rs:195: process_sentence calls english::g2p_word for an English word
G2pCallEnglish(p) ==
    /\ r_pc[p] = "g2p"
    /\ \E w \in MemoWords : r_word' = [r_word EXCEPT ![p] = w]
    /\ r_pc' = [r_pc EXCEPT ![p] = "english_lock_first"]
    /\ UNCHANGED <<r_assist, r_mean, m_assist, r_missed, m_english, m_sandhi, english_g2p_cache,
                   finals_cache, g2pVars, alignVars, inferVars, restVars, cacheVars>>

\* english/mod.rs:39: ENGLISH_G2P_CACHE.lock()
EnglishLockFirst(p) ==
    /\ r_pc[p] = "english_lock_first"
    /\ m_english = 0
    /\ m_english' = p
    /\ r_pc' = [r_pc EXCEPT ![p] = "english_get"]
    /\ UNCHANGED <<r_assist, r_mean, m_assist, r_missed, r_word, m_sandhi, english_g2p_cache,
                   finals_cache, g2pVars, alignVars, inferVars, restVars, cacheVars>>

\* english/mod.rs:39-41: the lookup; the guard is a temporary of the `if let`
\* statement and is dropped at its end, on a hit after `return cached`; on a miss the
\* result is computed without any lock (43-122)
EnglishGet(p) ==
    /\ r_pc[p] = "english_get"
    /\ m_english = p
    /\ m_english' = 0
    /\ r_pc' = [r_pc EXCEPT ![p] = IF r_word[p] \in english_g2p_cache
                                    THEN "g2p" ELSE "english_lock_second"]
    /\ UNCHANGED <<r_assist, r_mean, m_assist, r_missed, r_word, m_sandhi, english_g2p_cache,
                   finals_cache, g2pVars, alignVars, inferVars, restVars, cacheVars>>

\* english/mod.rs:124-126
EnglishLockSecond(p) ==
    /\ r_pc[p] = "english_lock_second"
    /\ m_english = 0
    /\ m_english' = p
    /\ r_pc' = [r_pc EXCEPT ![p] = "english_insert"]
    /\ UNCHANGED <<r_assist, r_mean, m_assist, r_missed, r_word, m_sandhi, english_g2p_cache,
                   finals_cache, g2pVars, alignVars, inferVars, restVars, cacheVars>>

\* english/mod.rs:127-129: the insert; the guard is dropped at the end of the statement
EnglishInsert(p) ==
    /\ r_pc[p] = "english_insert"
    /\ m_english = p
    /\ english_g2p_cache' = english_g2p_cache \cup {r_word[p]}
    /\ m_english' = 0
    /\ r_pc' = [r_pc EXCEPT ![p] = "g2p"]
    /\ UNCHANGED <<r_assist, r_mean, m_assist, r_missed, r_word, m_sandhi,
                   finals_cache, g2pVars, alignVars, inferVars, restVars, cacheVars>>

\* g2p.rs:179 and tone_sandhi.rs:467-470, 507-510: pre_merge_for_modify calls
\* finals_tone3_for_word for a word of the sentence
G2pCallFinals(p) ==
    /\ r_pc[p] = "g2p"
    /\ \E w \in MemoWords : r_word' = [r_word EXCEPT ![p] = w]
    /\ r_pc' = [r_pc EXCEPT ![p] = "finals_lock_first"]
    /\ UNCHANGED <<r_assist, r_mean, m_assist, r_missed, m_english, m_sandhi, english_g2p_cache,
                   finals_cache, g2pVars, alignVars, inferVars, restVars, cacheVars>>

\* tone_sandhi.rs:12: CACHE.lock()
FinalsLockFirst(p) ==
    /\ r_pc[p] = "finals_lock_first"
    /\ m_sandhi = 0
    /\ m_sandhi' = p
    /\ r_pc' = [r_pc EXCEPT ![p] = "finals_get"]
    /\ UNCHANGED <<r_assist, r_mean, m_assist, r_missed, r_word, m_english, english_g2p_cache,
                   finals_cache, g2pVars, alignVars, inferVars, restVars, cacheVars>>

\* FinalsGet with the guard bound for the rest of the function: a miss keeps the lock
FinalsGet_KeepsGuard(p) ==
    /\ r_pc[p] = "finals_get"
    /\ m_sandhi = p
    /\ m_sandhi' = IF r_word[p] \in finals_cache THEN 0 ELSE p
    /\ r_pc' = [r_pc EXCEPT ![p] = IF r_word[p] \in finals_cache
                                    THEN "g2p" ELSE "finals_lock_second"]
    /\ UNCHANGED <<r_assist, r_mean, m_assist, r_missed, r_word, m_english, english_g2p_cache,
                   finals_cache, g2pVars, alignVars, inferVars, restVars, cacheVars>>

\* tone_sandhi.rs:12-16: the lookup; the guard is a temporary of the `if let`
\* statement; on a miss finals_with_tone runs without any lock
FinalsGet(p) ==
    /\ r_pc[p] = "finals_get"
    /\ m_sandhi = p
    /\ m_sandhi' = 0
    /\ r_pc' = [r_pc EXCEPT ![p] = IF r_word[p] \in finals_cache
                                    THEN "g2p" ELSE "finals_lock_second"]
    /\ UNCHANGED <<r_assist, r_mean, m_assist, r_missed, r_word, m_english, english_g2p_cache,
                   finals_cache, g2pVars, alignVars, inferVars, restVars, cacheVars>>

\* tone_sandhi.rs:17-19
FinalsLockSecond(p) ==
    /\ r_pc[p] = "finals_lock_second"
    /\ m_sandhi = 0
    /\ m_sandhi' = p
    /\ r_pc' = [r_pc EXCEPT ![p] = "finals_insert"]
    /\ UNCHANGED <<r_assist, r_mean, m_assist, r_missed, r_word, m_english, english_g2p_cache,
                   finals_cache, g2pVars, alignVars, inferVars, restVars, cacheVars>>

\* tone_sandhi.rs:17-21: the insert; the guard is dropped at the end of the statement
FinalsInsert(p) ==
    /\ r_pc[p] = "finals_insert"
    /\ m_sandhi = p
    /\ finals_cache' = finals_cache \cup {r_word[p]}
    /\ m_sandhi' = 0
    /\ r_pc' = [r_pc EXCEPT ![p] = "g2p"]
    /\ UNCHANGED <<r_assist, r_mean, m_assist, r_missed, r_word, m_english, english_g2p_cache,
                   g2pVars, alignVars, inferVars, restVars, cacheVars>>

\* model/mod.rs:162: g2p returns; its error ends the request
G2pReturn(p) ==
    /\ r_pc[p] = "g2p"
    /\ \E ok \in BOOLEAN : r_pc' = [r_pc EXCEPT ![p] = IF ok THEN "forward" ELSE "done"]
    /\ UNCHANGED <<r_assist, r_mean, m_assist, r_missed, memoVars, g2pVars, alignVars, inferVars,
                   restVars, cacheVars>>

\* bert.rs:68 and 185: extract calls forward(text), which enters session.run
BertRunBegin(p) ==
    /\ r_pc[p] = "forward"
    /\ r_pc' = [r_pc EXCEPT ![p] = "bert_run"]
    /\ UNCHANGED <<r_assist, r_mean, m_assist, r_missed, memoVars, g2pVars, alignVars, inferVars, restVars, cacheVars>>

\* bert.rs:185-205 and 68-90: session.run returns; on success (of the run and of the
\* alignment) extract goes on to the style mean, an error ends the request
BertRunEnd(p) ==
    /\ r_pc[p] = "bert_run"
    /\ \E ok \in BOOLEAN :
          r_pc' = [r_pc EXCEPT ![p] = IF ~ok THEN "done"
                                      ELSE IF r_assist[p] = 0 THEN "acoustic"
                                      ELSE "lock_first"]
    /\ UNCHANGED <<r_assist, r_mean, m_assist, r_missed, memoVars, g2pVars, alignVars, inferVars, restVars, cacheVars>>

\* bert.rs:116-119: cached_style_mean locks the cache
LockFirst(p) ==
    /\ r_pc[p] = "lock_first"
    /\ m_assist = 0
    /\ m_assist' = p
    /\ r_pc' = [r_pc EXCEPT ![p] = "check_first"]
    /\ UNCHANGED <<r_assist, r_mean, r_missed, memoVars, g2pVars, alignVars, inferVars, restVars, cacheVars>>

\* bert.rs:120-123: the first check; the guard is dropped at the end of the block
CheckFirst(p) ==
    /\ r_pc[p] = "check_first"
    /\ m_assist = p
    /\ c_order' = CacheAfterGet(c_entries, c_order, r_assist[p])
    /\ IF r_assist[p] \in DOMAIN c_entries
       THEN /\ r_mean' = [r_mean EXCEPT ![p] = c_entries[r_assist[p]]]
            /\ r_pc' = [r_pc EXCEPT ![p] = "acoustic"]
            /\ r_missed' = r_missed
       ELSE /\ r_mean' = r_mean
            /\ r_pc' = [r_pc EXCEPT ![p] = "forward_assist"]
            /\ r_missed' = [r_missed EXCEPT ![p] = TRUE]
    /\ m_assist' = 0
    /\ UNCHANGED <<r_assist, memoVars, c_entries, c_capacity, c_clock, c_used, g2pVars, alignVars, inferVars, restVars>>

\* bert.rs:125 and 185: forward(assist text) enters session.run
AssistRunBegin(p) ==
    /\ r_pc[p] = "forward_assist"
    /\ r_pc' = [r_pc EXCEPT ![p] = "assist_run"]
    /\ UNCHANGED <<r_assist, r_mean, m_assist, r_missed, memoVars, g2pVars, alignVars, inferVars, restVars, cacheVars>>

\* bert.rs:125-129: session.run returns and the mean is computed, or an error ends
\* the request
AssistRunEnd(p) ==
    /\ r_pc[p] = "assist_run"
    /\ \E ok \in BOOLEAN :
          r_pc' = [r_pc EXCEPT ![p] = IF ok THEN "lock_second" ELSE "done"]
    /\ UNCHANGED <<r_assist, r_mean, m_assist, r_missed, memoVars, g2pVars, alignVars, inferVars, restVars, cacheVars>>

\* bert.rs:131-134
LockSecond(p) ==
    /\ r_pc[p] = "lock_second"
    /\ m_assist = 0
    /\ m_assist' = p
    /\ r_pc' = [r_pc EXCEPT ![p] = "check_second"]
    /\ UNCHANGED <<r_assist, r_mean, r_missed, memoVars, g2pVars, alignVars, inferVars, restVars, cacheVars>>

\* CheckSecond without the second check: the worker always inserts its own mean
CheckSecond_NoRecheck(p) ==
    /\ r_pc[p] = "check_second"
    /\ m_assist = p
    /\ LET c == CacheAfterInsert(c_entries, c_order, c_capacity, r_assist[p], p) IN
       /\ r_mean' = [r_mean EXCEPT ![p] = p]
       /\ c_order' = c.order
       /\ c_entries' = c.entries
    /\ m_assist' = 0
    /\ r_pc' = [r_pc EXCEPT ![p] = "acoustic"]
    /\ UNCHANGED <<r_assist, r_missed, memoVars, c_capacity, c_clock, c_used, g2pVars, alignVars, inferVars, restVars>>

\* bert.rs:135-140: the second check, and the insert of the worker's own mean (named
\* by the worker) when the key is still absent; the guard is dropped on return
CheckSecond(p) ==
    /\ r_pc[p] = "check_second"
    /\ m_assist = p
    /\ IF r_assist[p] \in DOMAIN c_entries
       THEN /\ r_mean' = [r_mean EXCEPT ![p] = c_entries[r_assist[p]]]
            /\ c_order' = CacheAfterGet(c_entries, c_order, r_assist[p])
            /\ c_entries' = c_entries
       ELSE LET c == CacheAfterInsert(c_entries, c_order, c_capacity, r_assist[p], p) IN
            /\ r_mean' = [r_mean EXCEPT ![p] = p]
            /\ c_order' = c.order
            /\ c_entries' = c.entries
    /\ m_assist' = 0
    /\ r_pc' = [r_pc EXCEPT ![p] = "acoustic"]
    /\ UNCHANGED <<r_assist, r_missed, memoVars, c_capacity, c_clock, c_used, g2pVars, alignVars, inferVars, restVars>>

\* model/mod.rs:272: infer_chinese enters onnx_session.run
AcousticRunBegin(p) ==
    /\ r_pc[p] = "acoustic"
    /\ r_pc' = [r_pc EXCEPT ![p] = "acoustic_run"]
    /\ UNCHANGED <<r_assist, r_mean, m_assist, r_missed, memoVars, g2pVars, alignVars, inferVars, restVars, cacheVars>>

\* model/mod.rs:272-279 and server.rs:201-207: the run returns and the worker is done
AcousticRunEnd(p) ==
    /\ r_pc[p] = "acoustic_run"
    /\ r_pc' = [r_pc EXCEPT ![p] = "done"]
    /\ UNCHANGED <<r_assist, r_mean, m_assist, r_missed, memoVars, g2pVars, alignVars, inferVars, restVars, cacheVars>>

NextRequests ==
    \E p \in Workers :
        \/ SpawnBlocking(p)
        \/ G2pCall(p)
        \/ BertRunBegin(p)
        \/ BertRunEnd(p)
        \/ LockFirst(p)
        \/ CheckFirst(p)
        \/ AssistRunBegin(p)
        \/ AssistRunEnd(p)
        \/ LockSecond(p)
        \/ CheckSecond(p)
        \/ AcousticRunBegin(p)
        \/ AcousticRunEnd(p)

SpecRequests == InitRequests /\ [][NextRequests]_vars

\* The same requests with the critical sections of the two G2P memos as steps of their
\* own; the requests share one assist text and the cache has its largest capacity
AssistTexts == {1}

InitLocks == InitRequests /\ c_capacity = Min(ASSIST_CACHE_CAPACITY, MaxCap)

SpawnBlockingOneText(p) == SpawnBlockingWith(p, AssistTexts)

NextLocks ==
    \E p \in Workers :
        \/ SpawnBlockingOneText(p)
        \/ G2pCallEnglish(p)
        \/ EnglishLockFirst(p)
        \/ EnglishGet(p)
        \/ EnglishLockSecond(p)
        \/ EnglishInsert(p)
        \/ G2pCallFinals(p)
        \/ FinalsLockFirst(p)
        \/ FinalsGet(p)
        \/ FinalsLockSecond(p)
        \/ FinalsInsert(p)
        \/ G2pReturn(p)
        \/ BertRunBegin(p)
        \/ BertRunEnd(p)
        \/ LockFirst(p)
        \/ CheckFirst(p)
        \/ AssistRunBegin(p)
        \/ AssistRunEnd(p)
        \/ LockSecond(p)
        \/ CheckSecond(p)
        \/ AcousticRunBegin(p)
        \/ AcousticRunEnd(p)

SpecLocks == InitLocks /\ [][NextLocks]_vars

\* ------------------------------------------------------------ normalize_text
\* The characters of the texts: a CJK ideograph, the CJK full stop, the ASCII full stop,
\* a character the normalizer strips, and two digits
NormChars == {"zh", "cjk_stop", ".", "@", "0", "1"}

DigitChars == {"0", "1"}

\* cn2an.rs:7-8: DIGITS and UNITS, by the names of the numerals
DIGITS == <<"ling", "yi", "er", "san", "si", "wu", "liu", "qi", "ba", "jiu">>

UNITS == <<<<>>, <<"shi">>, <<"bai">>, <<"qian">>>>

\* cn2an.rs:9: SECTION_UNITS
SECTION_UNITS == <<<<>>, <<"wan">>, <<"yi4">>, <<"zhao">>, <<"jing">>>>

\* char::to_digit(10) of a digit character
to_digit(ch) == IF ch = "0" THEN 0 ELSE 1

\* str::parse::<i128> of a run of digits
RECURSIVE ParseInt(_)
ParseInt(digits) ==
    IF digits = <<>> THEN 0
    ELSE 10 * ParseInt(SubSeq(digits, 1, Len(digits) - 1)) + to_digit(digits[Len(digits)])

\* str::trim_end_matches of one character
RECURSIVE trim_end_matches(_, _)
trim_end_matches(str, ch) ==
    IF str # <<>> /\ str[Len(str)] = ch
    THEN trim_end_matches(SubSeq(str, 1, Len(str) - 1), ch)
    ELSE str

\* cn2an.rs:97-112: the while loop of convert_section
RECURSIVE SectionLoop(_, _, _, _)
SectionLoop(section, words, unit_pos, zero) ==
    IF section <= 0 THEN words
    ELSE LET digit == section % 10 IN
         IF digit = 0
         THEN SectionLoop(section \div 10, IF zero THEN words ELSE <<DIGITS[1]>> \o words,
                          unit_pos + 1, TRUE)
         ELSE SectionLoop(section \div 10, <<DIGITS[digit + 1]>> \o UNITS[unit_pos + 1] \o words,
                          unit_pos + 1, FALSE)

\* cn2an.rs:92-115
convert_section(section) == trim_end_matches(SectionLoop(section, <<>>, 0, TRUE), "ling")

\* IntegerLoop that never asks for a zero between two groups
RECURSIVE IntegerLoop_NeverZero(_, _, _, _)
IntegerLoop_NeverZero(value, result, section_index, need_zero) ==
    IF value <= 0 THEN result
    ELSE LET section == value % 10000
             unit == IF section_index + 1 <= Len(SECTION_UNITS)
                     THEN SECTION_UNITS[section_index + 1] ELSE <<>>
         IN IntegerLoop_NeverZero(value \div 10000,
                                  IF section # 0 THEN convert_section(section) \o unit \o result
                                  ELSE result,
                                  section_index + 1, FALSE)

\* cn2an.rs:63-83: the while loop of convert_integer
RECURSIVE IntegerLoop(_, _, _, _)
IntegerLoop(value, result, section_index, need_zero) ==
    IF value <= 0 THEN result
    ELSE LET section == value % 10000 IN
         IF section # 0
         THEN LET zeroed == IF need_zero /\ ~(result # <<>> /\ result[1] = "ling")
                            THEN <<"ling">> \o result ELSE result
                  unit == IF section_index + 1 <= Len(SECTION_UNITS)
                          THEN SECTION_UNITS[section_index + 1] ELSE <<>>
              IN IntegerLoop(value \div 10000, convert_section(section) \o unit \o zeroed,
                             section_index + 1, section < 1000 /\ value >= 10000)
         ELSE IntegerLoop(value \div 10000, result, section_index + 1,
                          IF result # <<>> THEN TRUE ELSE need_zero)

\* cn2an.rs:50-90 (a numeral is 3 bytes long, so result.len() > 2 holds with the prefix)
convert_integer(value) ==
    IF value = 0 THEN <<DIGITS[1]>>
    ELSE LET result == IntegerLoop(value, <<>>, 0, FALSE) IN
         IF Len(result) >= 2 /\ result[1] = "yi" /\ result[2] = "shi" /\ 3 * Len(result) > 2
         THEN Tail(result)
         ELSE result

\* cn2an.rs:17-48: an2cn of a match of NUMBER_RE, its integer and fraction digits
an2cn(int_part, frac_part) ==
    IF int_part = <<"0">> /\ frac_part = <<>> THEN <<DIGITS[1]>>
    ELSE convert_integer(ParseInt(int_part))
         \o (IF frac_part = <<>> THEN <<>>
             ELSE <<"dian">> \o [k \in 1..Len(frac_part) |-> DIGITS[to_digit(frac_part[k]) + 1]])

\* The longest run of digits of text from position i on
RECURSIVE DigitRun(_, _)
DigitRun(text, i) ==
    IF i <= Len(text) /\ text[i] \in DigitChars THEN <<text[i]>> \o DigitRun(text, i + 1)
    ELSE <<>>

\* cn2an.rs:4-15: replace_numbers from position i on; NUMBER_RE matches the longest run
\* of digits and, when a full stop and a digit follow, the digits after it
RECURSIVE ReplaceNumbersFrom(_, _)
ReplaceNumbersFrom(text, i) ==
    IF i > Len(text) THEN <<>>
    ELSE IF text[i] \notin DigitChars THEN <<text[i]>> \o ReplaceNumbersFrom(text, i + 1)
    ELSE LET int_part == DigitRun(text, i)
             j == i + Len(int_part)
             frac_part == IF j <= Len(text) /\ text[j] = "." THEN DigitRun(text, j + 1) ELSE <<>>
             next == IF frac_part = <<>> THEN j ELSE j + 1 + Len(frac_part)
         IN an2cn(int_part, frac_part) \o ReplaceNumbersFrom(text, next)

replace_numbers(text) == ReplaceNumbersFrom(text, 1)

\* normalizer.rs:8-42: REPLACE_MAP, the keys of one character among the characters of
\* the model
REPLACE_MAP == [key \in {"cjk_stop"} |-> "."]

\* normalizer.rs:44-49 and 66-71: REPLACE_PATTERN.replace_all from position i on: one
\* pass from left to right over matches that do not overlap, "..." before any other key
RECURSIVE ReplaceAllFrom(_, _)
ReplaceAllFrom(text, i) ==
    IF i > Len(text) THEN <<>>
    ELSE IF i + 2 <= Len(text) /\ text[i] = "." /\ text[i + 1] = "." /\ text[i + 2] = "."
    THEN <<"ellipsis">> \o ReplaceAllFrom(text, i + 3)
    ELSE IF text[i] \in DOMAIN REPLACE_MAP
    THEN <<REPLACE_MAP[text[i]]>> \o ReplaceAllFrom(text, i + 1)
    ELSE <<text[i]>> \o ReplaceAllFrom(text, i + 1)

\* nlp/mod.rs:9: the characters of PUNCTUATIONS as the source file spells them; its third
\* entry is the three characters U+00E2, U+20AC, U+00A6, not U+2026
PunctuationChars == {"!", "?", "a_circumflex", "euro", "broken_bar", ",", ".", "'", "-"}

\* normalizer.rs:51-58: the characters NON_CHINESE_PATTERN does not match
NormKeeps(ch) ==
    \/ ch \in {"zh", "dian"}
    \/ \E k \in 1..Len(DIGITS) : ch = DIGITS[k]
    \/ \E k \in 1..Len(UNITS) : <<ch>> = UNITS[k]
    \/ \E k \in 1..Len(SECTION_UNITS) : <<ch>> = SECTION_UNITS[k]
    \/ ch \in DigitChars
    \/ ch \in PunctuationChars

\* normalizer.rs:65-74
replace_punctuation(text) == SelectSeq(ReplaceAllFrom(text, 1), NormKeeps)

\* normalizer.rs:60-63
normalize_text(text) == replace_punctuation(replace_numbers(text))

InitNorm ==
    /\ n_text \in SeqsUpTo(NormChars, MaxNorm)
    /\ n_once = <<>>
    /\ n_twice = <<>>
    /\ n_pc = "call"
    /\ HttpIdle
    /\ G2pIdle
    /\ AlignIdle
    /\ InferIdle
    /\ CacheIdle
    /\ ReqIdle
    /\ EngIdle
    /\ LateIdle

\* normalize_text(text)
NormalizeOnce ==
    /\ n_pc = "call"
    /\ n_once' = normalize_text(n_text)
    /\ n_pc' = "once"
    /\ UNCHANGED <<n_text, n_twice, coreVars, httpVars, engVars, lateVars>>

\* normalize_text of the result
NormalizeTwice ==
    /\ n_pc = "once"
    /\ n_twice' = normalize_text(n_once)
    /\ n_pc' = "twice"
    /\ UNCHANGED <<n_text, n_once, coreVars, httpVars, engVars, lateVars>>

NextNorm == NormalizeOnce \/ NormalizeTwice

SpecNorm == InitNorm /\ [][NextNorm]_vars

\* ------------------------------------------------------------ english::g2p_word
\* The characters of a token: the letter a in lower and upper case, the upper case letter
\* B, a digit and the apostrophe
TokenChars == {"a", "A", "B", "1", "'"}

is_ascii_alphabetic(ch) == ch \in {"a", "A", "B"}

is_ascii_uppercase(ch) == ch \in {"A", "B"}

is_ascii_digit(ch) == ch = "1"

to_uppercase(segment) == [k \in 1..Len(segment) |-> IF segment[k] = "a" THEN "A" ELSE segment[k]]

\* english/mod.rs:8 and 236-252: entries of the dictionary (resources/cmudict.rep is not
\* part of src/, the entries are examples in its format: a phoneme with its stress digit,
\* -1 for none): fewer phonemes than letters, as many, and more
CMU_DICT ==
    [key \in {<<"A">>, <<"B">>, <<"A", "B">>, <<"A", "A">>} |->
        CASE key = <<"A">> -> <<<<"ah", 0>>>>
          [] key = <<"B">> -> <<<<"b", -1>>, <<"iy", 1>>>>
          [] key = <<"A", "B">> -> <<<<"ae", 1>>, <<"b", -1>>>>
          [] key = <<"A", "A">> -> <<<<"aa", 1>>>>]

\* english/mod.rs:254-269: refine_phoneme of a phoneme of ARPA_SET
refine_phoneme(phn) == [phone |-> phn[1], tone |-> IF phn[2] >= 0 THEN phn[2] + 1 ELSE 3]

\* english/mod.rs:164-201
fallback_alpha_segment(segment) ==
    [phones |-> [k \in 1..Len(segment) |-> IF segment[k] = "B" THEN "b" ELSE "ey"],
     tones |-> [k \in 1..Len(segment) |-> 0]]

\* english/mod.rs:133-146: the phonemes of the dictionary entry, refined
DictLookup(segment) ==
    LET entry == CMU_DICT[to_uppercase(segment)] IN
    [phones |-> [k \in 1..Len(entry) |-> refine_phoneme(entry[k]).phone],
     tones |-> [k \in 1..Len(entry) |-> refine_phoneme(entry[k]).tone]]

\* english/mod.rs:132-162 for a segment of one letter
AlphaLetter(ch) ==
    IF to_uppercase(<<ch>>) \in DOMAIN CMU_DICT THEN DictLookup(<<ch>>)
    ELSE fallback_alpha_segment(<<ch>>)

\* english/mod.rs:148-155: the spell-out of an acronym, letter by letter
RECURSIVE SpellOut(_)
SpellOut(segment) ==
    IF segment = <<>> THEN [phones |-> <<>>, tones |-> <<>>]
    ELSE LET head == AlphaLetter(Head(segment))
             rest == SpellOut(Tail(segment))
         IN [phones |-> head.phones \o rest.phones, tones |-> head.tones \o rest.tones]

\* english/mod.rs:132-162
g2p_alpha_segment(segment) ==
    IF to_uppercase(segment) \in DOMAIN CMU_DICT THEN DictLookup(segment)
    ELSE IF (\A k \in 1..Len(segment) : is_ascii_uppercase(segment[k])) /\ Len(segment) > 1
    THEN SpellOut(segment)
    ELSE fallback_alpha_segment(segment)

\* The index (1-based) of the first smallest slot: Iterator::min_by_key
FirstMin(result) ==
    CHOOSE i \in 1..Len(result) :
        /\ \A j \in 1..Len(result) : result[i] <= result[j]
        /\ \A j \in 1..(i - 1) : result[j] > result[i]

\* distribute that gives every slot the same share and drops the remainder
distribute_DropRemainder(total, slots) ==
    IF slots = 0 THEN <<>> ELSE [k \in 1..slots |-> total \div slots]

\* english/mod.rs:203-218
RECURSIVE distribute(_, _)
distribute(total, slots) ==
    IF slots = 0 THEN <<>>
    ELSE IF total = 0 THEN [k \in 1..slots |-> 0]
    ELSE LET result == distribute(total - 1, slots) IN
         [result EXCEPT ![FirstMin(result)] = @ + 1]

\* english/mod.rs:220-234: digit_mapping('1')
digit_mapping(ch) == <<"w", "ah", "n">>

\* The letters of chars from position idx on (english/mod.rs:68-72)
RECURSIVE AlphaRun(_, _)
AlphaRun(chars, idx) ==
    IF idx <= Len(chars) /\ is_ascii_alphabetic(chars[idx])
    THEN <<chars[idx]>> \o AlphaRun(chars, idx + 1)
    ELSE <<>>

\* english/mod.rs:65-107: the while loop from idx (1-based) on
RECURSIVE WordLoop(_, _)
WordLoop(chars, idx) ==
    IF idx > Len(chars) THEN NoResult
    ELSE IF is_ascii_alphabetic(chars[idx])
    THEN LET segment == AlphaRun(chars, idx)
             seg == g2p_alpha_segment(segment)
             rest == WordLoop(chars, idx + Len(segment))
         IN [phones |-> seg.phones \o rest.phones,
             tones |-> seg.tones \o rest.tones,
             char_phone_counts |->
                 distribute(Len(seg.phones), Len(segment)) \o rest.char_phone_counts]
    ELSE LET rest == WordLoop(chars, idx + 1)
             here == IF is_ascii_digit(chars[idx]) THEN digit_mapping(chars[idx])
                     ELSE <<chars[idx]>>
         IN [phones |-> here \o rest.phones,
             tones |-> [k \in 1..Len(here) |-> 0] \o rest.tones,
             char_phone_counts |-> <<Len(here)>> \o rest.char_phone_counts]

\* english/mod.rs:43-122: the result g2p_word computes for a token not in the memo
ComputeWord(token) ==
    IF token = <<>> THEN [phones |-> <<>>, tones |-> <<>>, char_phone_counts |-> <<0>>]
    ELSE LET r == WordLoop(token, 1) IN
         [phones |-> IF r.phones = <<>> THEN <<"UNK">> ELSE r.phones,
          tones |-> IF r.phones = <<>> THEN <<0>> ELSE r.tones,
          char_phone_counts |-> IF r.char_phone_counts = <<>>
                                THEN <<Len(IF r.phones = <<>> THEN <<"UNK">> ELSE r.phones)>>
                                ELSE r.char_phone_counts]

\* The tokens g2p_word is called with: process_sentence hands it the words that
\* is_english_token accepts and that are not empty (g2p.rs:186-195)
Tokens == SeqsUpTo(TokenChars, MaxToken) \ {<<>>}

InitEnglish ==
    /\ e_cache = EmptyMap
    /\ e_token = <<>>
    /\ e_result = NoResult
    /\ e_hit = FALSE
    /\ e_pc = "first"
    /\ HttpIdle
    /\ NormIdle
    /\ G2pIdle
    /\ AlignIdle
    /\ InferIdle
    /\ CacheIdle
    /\ ReqIdle
    /\ LateIdle

\* english/mod.rs:38-130: g2p_word(token)
G2pWord ==
    /\ e_pc \in {"first", "second"}
    /\ e_pc' = IF e_pc = "first" THEN "second" ELSE "done"
    /\ \E token \in Tokens :
         /\ e_token' = token
         /\ IF token \in DOMAIN e_cache
            THEN /\ e_result' = e_cache[token]
                 /\ e_hit' = TRUE
                 /\ e_cache' = e_cache
            ELSE /\ e_result' = ComputeWord(token)
                 /\ e_hit' = FALSE
                 /\ e_cache' = MapInsert(e_cache, token, ComputeWord(token))
    /\ UNCHANGED <<coreVars, httpVars, normVars, lateVars>>

NextEnglish == G2pWord

SpecEnglish == InitEnglish /\ [][NextEnglish]_vars

\* ------------------------------------------------- POST /v1/audio/speech
\* An Option<T> is a sequence: <<>> for None, <<v>> for Some(v)
Opt(S) == {<<>>} \cup {<<v>> : v \in S}

\* The speakers and styles the project knows, and the names a caller may give
Speakers == {"speaker"}

Styles == {"Neutral"}

Names == {"speaker", "Neutral", "unknown"}

\* The f32 values a caller may give: -1.0, 0.0, 1.0 and 2.0
Floats == {-1, 0, 1, 2}

\* server.rs:28-57: the payloads the Json extractor hands to create_speech (ResponseFormat
\* has the one variant B64Json, so the test of lines 170-175 never fails); the input is
\* a text of character classes
Payloads ==
    [audio_format : {"wav", "mp3"}, input : {<<>>, <<"s">>, <<"c">>},
     voice : Opt(Names), style : Opt(Names), style_weight : Opt(Floats),
     assist_weight : Opt(Floats), length_scale : Opt(Floats), speed : Opt(Floats)]

\* server.rs:191-198: the length_scale handed to synthesize (1 / speed is positive for
\* the positive speed that passes the test; its value 1.0 stands for that)
SynthLengthScale(req) ==
    IF req.length_scale # <<>> THEN req.length_scale
    ELSE IF req.speed # <<>> THEN <<1>>
    ELSE <<>>

\* server.rs:177-198: the payload create_speech rejects before it spawns the task
HandlerRejects(req) ==
    \/ TrimIsEmpty(req.input)
    \/ req.length_scale = <<>> /\ req.speed # <<>> /\ req.speed[1] <= 0

\* build_request without the test of assist_weight
build_request_NoAssistCheck(req, length_scale) ==
    /\ req.voice # <<>> => req.voice[1] \in Speakers
    /\ req.style # <<>> => req.style[1] \in Styles
    /\ req.style_weight # <<>> => (0 <= req.style_weight[1] /\ req.style_weight[1] <= 1)
    /\ length_scale # <<>> => length_scale[1] > 0

\* inference.rs:100-158: build_request returns Ok
build_request(req, length_scale) ==
    /\ req.voice # <<>> => req.voice[1] \in Speakers
    /\ req.style # <<>> => req.style[1] \in Styles
    /\ req.style_weight # <<>> => (0 <= req.style_weight[1] /\ req.style_weight[1] <= 1)
    /\ length_scale # <<>> => length_scale[1] > 0
    /\ req.assist_weight # <<>> => (0 <= req.assist_weight[1] /\ req.assist_weight[1] <= 1)

InitHttp ==
    /\ HttpIdle
    /\ G2pIdle
    /\ AlignIdle
    /\ InferIdle
    /\ CacheIdle
    /\ ReqIdle
    /\ EngIdle
    /\ NormIdle
    /\ LateIdle

\* server.rs:147-201: create_speech up to its await: a response 400, or the blocking task
CreateSpeech ==
    /\ h_pc = "idle"
    /\ \E req \in Payloads :
         /\ h_req' = req
         /\ IF HandlerRejects(req)
            THEN h_pc' = "responded" /\ h_status' = 400 /\ w_pc' = w_pc
            ELSE h_pc' = "awaiting" /\ h_status' = h_status /\ w_pc' = "queued"
    /\ UNCHANGED <<w_result, w_infer, h_dropped_at, coreVars, normVars, engVars, lateVars>>

\* inference.rs:73: synthesize is public, a caller other than create_speech hands it any
\* ChineseSynthesisInput (which has a length_scale and no speed)
SynthesizeCall ==
    /\ h_pc = "idle"
    /\ \E req \in {r \in Payloads : r.speed = <<>> /\ r.audio_format = "wav"} : h_req' = req
    /\ h_pc' = "direct"
    /\ w_pc' = "queued"
    /\ UNCHANGED <<h_status, w_result, w_infer, h_dropped_at, coreVars, normVars, engVars, lateVars>>

\* inference.rs:73-78: synthesize tests the text and builds the request
SynthesizeValidate ==
    /\ w_pc = "queued"
    /\ IF TrimIsEmpty(h_req.input) \/ ~build_request(h_req, SynthLengthScale(h_req))
       THEN w_pc' = "finished" /\ w_result' = "err_request"
       ELSE w_pc' = "inference" /\ w_result' = w_result
    /\ UNCHANGED <<h_req, h_pc, h_status, w_infer, h_dropped_at, coreVars, normVars, engVars, lateVars>>

\* inference.rs:79-83: infer_chinese runs and returns a waveform or an error, or panics
SynthesizeInfer ==
    /\ w_pc = "inference"
    /\ w_infer' = TRUE
    /\ \E outcome \in {"ok", "err_inference", "panic"} :
         IF outcome = "ok"
         THEN w_pc' = "postprocess" /\ w_result' = w_result
         ELSE w_pc' = "finished" /\ w_result' = outcome
    /\ UNCHANGED <<h_req, h_pc, h_status, h_dropped_at, coreVars, normVars, engVars, lateVars>>

\* inference.rs:84-97: the peak is normalized and the WAV is encoded, or the encoder fails
SynthesizeEncode ==
    /\ w_pc = "postprocess"
    /\ w_pc' = "finished"
    /\ \E outcome \in {"ok", "err_encode"} : w_result' = outcome
    /\ UNCHANGED <<h_req, h_pc, h_status, w_infer, h_dropped_at, coreVars, normVars, engVars, lateVars>>

\* server.rs:201-245: the await returns and create_speech answers
CreateSpeechRespond ==
    /\ h_pc = "awaiting"
    /\ w_pc = "finished"
    /\ h_pc' = "responded"
    /\ IF w_result # "ok" THEN h_status' = 500
       ELSE IF h_req.audio_format = "wav" THEN h_status' = 200
       ELSE \E mp3_ok \in BOOLEAN : h_status' = IF mp3_ok THEN 200 ELSE 500
    /\ UNCHANGED <<h_req, w_pc, w_result, w_infer, h_dropped_at, coreVars, normVars, engVars, lateVars>>

\* RequestCancelled that stops a blocking task that has not finished
RequestCancelled_AbortsTask ==
    /\ h_pc = "awaiting"
    /\ h_pc' = "cancelled"
    /\ h_dropped_at' = w_pc
    /\ w_pc' = IF w_pc = "finished" THEN w_pc ELSE "none"
    /\ UNCHANGED <<h_req, h_status, w_result, w_infer, coreVars, normVars, engVars, lateVars>>

\* The client goes away or an outer timeout fires: the future of create_speech is dropped
\* at its await (server.rs:202), and the JoinHandle with it, which detaches the task
RequestCancelled ==
    /\ h_pc = "awaiting"
    /\ h_pc' = "cancelled"
    /\ h_dropped_at' = w_pc
    /\ UNCHANGED <<h_req, h_status, w_pc, w_result, w_infer, coreVars, normVars, engVars, lateVars>>

NextHttp ==
    \/ CreateSpeech
    \/ SynthesizeCall
    \/ SynthesizeValidate
    \/ SynthesizeInfer
    \/ SynthesizeEncode
    \/ CreateSpeechRespond
    \/ RequestCancelled

SpecHttp == InitHttp /\ [][NextHttp]_vars

\* The blocking pool runs a task it was handed: every step of synthesize that can be
\* taken is taken in the end
SpecHttpFair ==
    /\ SpecHttp
    /\ WF_vars(SynthesizeValidate)
    /\ WF_vars(SynthesizeInfer)
    /\ WF_vars(SynthesizeEncode)

\* ------------------------------------------------------------ claims on g2p
\* The deficit or surplus the reconciliation of the returned result had to settle
G2pDeficit == (Sum(SegWord2ph(g_seg)) + 2) - Sum(BeforeReconcile(g_text, g_seg))

\* C1: whenever g2p returns Ok, phones and tones have the same length and word2ph sums
\* to the number of phones, whatever the per-sentence stage produced.
C1_LengthsAgree ==
    g_pc = "ok" => /\ Len(g_phones) = Len(g_tones)
                   /\ Sum(g_word2ph) = Len(g_phones)

\* C1 witness: a result whose word2ph was short of the phones before reconciliation by
\* more than the characters can take, so that a residue went to the last element.
C1_Witness ==
    /\ g_pc = "ok"
    /\ G2pDeficit > Len(g_text)
    /\ Len(g_text) >= 1

\* C2: whenever g2p returns Ok, word2ph has one entry per character of text plus two.
C2_Word2phLength == g_pc = "ok" => Len(g_word2ph) = char_count(g_text) + 2

\* C2 witness: the per-sentence stage produced more entries than text has characters
\* (truncation), in a text that is not empty.
C2_Witness == g_pc = "ok" /\ Len(g_seg) > Len(g_text) /\ Len(g_text) >= 1

\* C3 (as claimed): in every result the sentinels are intact: phones starts and ends
\* with "_", tones with 0, and the first and last entries of word2ph are exactly 1.
C3_SentinelsIntact ==
    g_pc = "ok" => /\ g_phones[1] = "_" /\ g_phones[Len(g_phones)] = "_"
                   /\ g_tones[1] = 0 /\ g_tones[Len(g_tones)] = 0
                   /\ g_word2ph[1] = 1 /\ g_word2ph[Len(g_word2ph)] = 1

C6_AlignPreservesSum ==
    a_pc = "ok" => Sum(a_result) = Sum(a_word2ph)

\* ------------------------------------------------------ claims on infer_chinese
\* C5: with add_blank, once the blanks are interspersed and word2ph is doubled with 1
\* added to its first entry, phone_ids, tone_ids and lang_ids all have length
\* 2 * len(phones) + 1 and word2ph sums to that length.
C5_BlankKeepsAlignment ==
    (i_pc \in {"bert", "align", "acoustic", "done"} /\ i_add_blank) =>
        /\ Len(i_phone_ids) = 2 * Len(g_phones) + 1
        /\ Len(i_tone_ids) = Len(i_phone_ids)
        /\ Len(i_lang_ids) = Len(i_phone_ids)
        /\ Sum(i_word2ph) = Len(i_phone_ids)

\* C5 witness: blanks were interspersed into the phones of a text with characters
C5_Witness == i_pc = "bert" /\ i_add_blank /\ Len(g_phones) > 2 /\ Len(g_text) >= 2

\* C7 (as claimed): when the acoustic session is about to run, the frame count of the
\* BERT features equals the length of the phone id sequence.
C7_FramesMatchPhones ==
    i_pc = "acoustic" => i_frames = Len(i_phone_ids)

\* ------------------------------------------------------ claims on AssistCache
\* The keys inserted so far (a get hit needs an insert before it)
InsertedKeys == {k \in CacheKeys : c_used[k] > 0}

\* The resident key whose latest insert or get hit is the oldest
LeastRecentlyUsed ==
    CHOOSE k \in DOMAIN c_entries : \A j \in DOMAIN c_entries : c_used[k] <= c_used[j]

\* C8: the cache never holds more entries than its capacity, and once more distinct keys
\* than the capacity have been inserted it holds exactly capacity entries.
C8_CacheBounded ==
    /\ Cardinality(DOMAIN c_entries) <= c_capacity
    /\ Cardinality(InsertedKeys) > c_capacity => Cardinality(DOMAIN c_entries) = c_capacity

\* C8 witness: capacity + 1 distinct keys were inserted into a cache of capacity 2 or more
C8_Witness ==
    /\ c_capacity >= 2
    /\ Cardinality(InsertedKeys) = c_capacity + 1
    /\ Cardinality(DOMAIN c_entries) = c_capacity

\* C9: a step removes a key only when a new key is inserted into a full cache, and then
\* it removes exactly the resident key whose latest insert or get hit was the oldest.
C9_EvictsLeastRecentlyUsed ==
    [][\A k \in DOMAIN c_entries :
          k \notin DOMAIN c_entries' =>
             /\ k = LeastRecentlyUsed
             /\ Cardinality(DOMAIN c_entries) = c_capacity
             /\ \E new \in CacheKeys \ DOMAIN c_entries :
                   DOMAIN c_entries' = ((DOMAIN c_entries) \ {k}) \cup {new}]_vars

\* C9 witness: a resident key that was inserted before an evicted key was last used: a
\* later get hit kept it in the cache (insert A, insert B, get A, insert C leaves A, C).
C9_Witness ==
    /\ c_capacity = 2
    /\ \E a \in DOMAIN c_entries : \E b \in InsertedKeys \ DOMAIN c_entries :
          /\ c_entries[a] < c_used[b]
          /\ c_used[b] < c_used[a]

\* ------------------------------------------------ claims on concurrent requests
\* C10 (as claimed): at any time at most one worker is inside a run of the BERT session
\* and at most one inside a run of the acoustic session.
C10_SessionsSerialized ==
    /\ Cardinality({p \in Workers : r_pc[p] \in {"bert_run", "assist_run"}}) <= 1
    /\ Cardinality({p \in Workers : r_pc[p] = "acoustic_run"}) <= 1

\* ------------------------------------------------ claims on POST /v1/audio/speech
\* The payload has one of the errors the claim lists: empty input, unknown voice or style,
\* a weight outside [0, 1], length_scale <= 0, or a speed <= 0 that is used
ValidationError(req) ==
    \/ TrimIsEmpty(req.input)
    \/ req.voice # <<>> /\ req.voice[1] \notin Speakers
    \/ req.style # <<>> /\ req.style[1] \notin Styles
    \/ req.style_weight # <<>> /\ (req.style_weight[1] < 0 \/ req.style_weight[1] > 1)
    \/ req.assist_weight # <<>> /\ (req.assist_weight[1] < 0 \/ req.assist_weight[1] > 1)
    \/ req.length_scale # <<>> /\ req.length_scale[1] <= 0
    \/ req.length_scale = <<>> /\ req.speed # <<>> /\ req.speed[1] <= 0

\* C11 (as claimed): every request with a validation error is answered with 400, and 500
\* is the answer only when the inference failed.
C11_ValidationIs400 ==
    h_pc = "responded" =>
        /\ ValidationError(h_req) => h_status = 400
        /\ h_status = 500 => w_infer

\* The input of synthesize has one of the errors C12 lists
SynthesizeMustReject(req) ==
    \/ TrimIsEmpty(req.input)
    \/ req.voice # <<>> /\ req.voice[1] \notin Speakers
    \/ req.style # <<>> /\ req.style[1] \notin Styles
    \/ req.style_weight # <<>> /\ (req.style_weight[1] < 0 \/ req.style_weight[1] > 1)
    \/ req.assist_weight # <<>> /\ (req.assist_weight[1] < 0 \/ req.assist_weight[1] > 1)
    \/ SynthLengthScale(req) # <<>> /\ SynthLengthScale(req)[1] <= 0

\* C12: when the input of synthesize has an empty text, an unknown speaker or style, a
\* weight outside [0, 1] or a length_scale <= 0, synthesize returns an error and
\* infer_chinese is never called.
C12_RejectsBeforeInference ==
    (w_pc # "none" /\ SynthesizeMustReject(h_req)) =>
        /\ ~w_infer
        /\ w_pc \in {"queued", "finished"}
        /\ w_pc = "finished" => w_result = "err_request"

\* C12 witness: synthesize has returned for an input whose only error is the
\* assist_weight, the last parameter build_request tests
C12_Witness ==
    /\ w_pc = "finished"
    /\ h_req.assist_weight = <<2>>
    /\ build_request_NoAssistCheck(h_req, SynthLengthScale(h_req))
    /\ ~TrimIsEmpty(h_req.input)

\* ------------------------------------------------ claims on normalize_text
\* C13 (as claimed): normalize_text(normalize_text(s)) = normalize_text(s) for every s.
C13_NormalizeIdempotent == n_pc = "twice" => n_twice = n_once

\* ------------------------------------------------ claims on the order of the stages
\* The order of the stages of one request
StageOrder == <<"normalize", "g2p", "map", "bert", "acoustic", "waveform">>

IsPrefix(a, b) == Len(a) <= Len(b) /\ a = SubSeq(b, 1, Len(a))

UnknownPhone == \E k \in 1..Len(g_phones) : g_phones[k] \notin DOMAIN SYMBOL_ID_MAP

\* C14: the stages of a request run in the order normalize, g2p, phone-id mapping, BERT,
\* acoustic run, waveform; a request whose g2p failed has run nothing after g2p, one with
\* an unknown phone symbol nothing after the mapping, both end with an error and no
\* session has run; a request that has ended with an error runs no further stage.
C14_StagesInOrder ==
    /\ [](/\ IsPrefix(i_stages, StageOrder)
          /\ (i_pc \notin {"idle", "g2p"} /\ g_pc = "err") =>
                (i_pc = "error" /\ i_stages = <<"normalize", "g2p">>)
          /\ (i_pc \notin {"idle", "g2p"} /\ g_pc = "ok" /\ UnknownPhone) =>
                (i_pc = "error" /\ i_stages = <<"normalize", "g2p", "map">>)
          /\ i_pc = "error" => i_stages[Len(i_stages)] # "waveform"
          /\ i_pc = "done" => i_stages = StageOrder)
    /\ [][i_pc = "error" => (i_pc' = "error" /\ i_stages' = i_stages)]_vars

\* C14 witness: a request that ended with an error at the mapping of an unknown phone
\* symbol
C14_Witness == i_pc = "error" /\ g_pc = "ok" /\ UnknownPhone

\* ------------------------------------------------ claims on cancellation
\* C15: once the request is cancelled after the hand-over, the blocking task still runs
\* to its end (from wherever it was, through every stage that remains), and no response
\* is sent then or later.
C15_CancelDoesNotAbort ==
    /\ (h_pc = "cancelled") ~> (w_pc = "finished")
    /\ [](h_pc = "cancelled" => h_status = 0)
    /\ [][h_pc = "cancelled" =>
            /\ h_pc' = "cancelled"
            /\ w_pc = "queued" => w_pc' \in {"queued", "inference", "finished"}
            /\ w_pc = "inference" => w_pc' \in {"inference", "postprocess", "finished"}
            /\ w_pc = "postprocess" => w_pc' \in {"postprocess", "finished"}
            /\ w_pc = "finished" => w_pc' = "finished"]_vars

\* C15 witness: the request was cancelled while its task was still queued, and the task
\* has run the inference and the encoding and has returned a waveform
C15_Witness ==
    /\ h_pc = "cancelled"
    /\ h_dropped_at = "queued"
    /\ w_pc = "finished"
    /\ w_infer
    /\ w_result = "ok"

\* ------------------------------------------------ claims on english::g2p_word
\* C16: every result of g2p_word for a token, computed or from the memo, has one count
\* per character of the token, counts that sum to the number of phones, and as many
\* tones as phones.
C16_CountsCoverToken ==
    e_pc \in {"second", "done"} =>
        /\ Len(e_result.char_phone_counts) = Len(e_token)
        /\ Sum(e_result.char_phone_counts) = Len(e_result.phones)
        /\ Len(e_result.tones) = Len(e_result.phones)

\* C16 witness: a result served from the memo for a token with a dictionary word of
\* fewer phonemes than letters next to a digit
C16_Witness ==
    /\ e_pc = "done"
    /\ e_hit
    /\ \E k \in 1..Len(e_result.char_phone_counts) : e_result.char_phone_counts[k] = 0
    /\ \E k \in 1..Len(e_token) : is_ascii_digit(e_token[k])

\* ------------------------------------------------ claims on the word2ph of BERT
\* C17 (as claimed): the word2ph handed to the BERT extraction is the vector g2p returned.
C17_BertGetsG2pWord2ph ==
    i_pc \in {"align", "acoustic", "done"} => i_bert_word2ph = g_word2ph

\* C17 (amended): the word2ph handed to the BERT extraction is the vector after the
\* add_blank step: with add_blank every entry of g2p's vector doubled and 1 added to the
\* first, without add_blank g2p's vector; in both cases it sums to the number of phone ids.
C17_BertGetsFinalWord2ph ==
    i_pc \in {"align", "acoustic", "done"} =>
        /\ Len(i_bert_word2ph) = Len(g_word2ph)
        /\ \A k \in 1..Len(g_word2ph) :
              i_bert_word2ph[k] = IF i_add_blank
                                  THEN 2 * g_word2ph[k] + (IF k = 1 THEN 1 ELSE 0)
                                  ELSE g_word2ph[k]
        /\ Sum(i_bert_word2ph) = Len(i_phone_ids)

\* C17 witness: extract was called in a request with add_blank for a text with characters
C17_Witness == i_pc = "align" /\ i_add_blank /\ Len(g_text) >= 1 /\ Sum(g_word2ph) > 2

\* ---------------------------------------------------------------------- C18
\* C18: when several concurrent cached_style_mean calls for one text all miss on the
\* first check, only the first to reach the second critical section inserts; each
\* other one finds the key present and returns the stored value, not its own; a value
\* is never overwritten while its key stays resident.
\* Every step of the requests: a key resident before and after the step keeps its
\* value; and a worker leaving the second critical section returns the value that
\* was stored when it entered and leaves the entries alone, or, the key being absent,
\* stores its own mean and returns it.
C18_SecondCheckStep ==
    /\ \A k \in (DOMAIN c_entries) \cap (DOMAIN c_entries') : c_entries'[k] = c_entries[k]
    /\ \A p \in Workers :
          (r_pc[p] = "check_second" /\ r_pc'[p] # "check_second") =>
              IF r_assist[p] \in DOMAIN c_entries
              THEN /\ r_mean'[p] = c_entries[r_assist[p]]
                   /\ r_mean'[p] # p
                   /\ c_entries' = c_entries
              ELSE /\ r_mean'[p] = p
                   /\ r_assist[p] \in DOMAIN c_entries'
                   /\ c_entries'[r_assist[p]] = p

C18_FirstWriterWins == [][C18_SecondCheckStep]_vars

\* two workers with the same assist text both missed on the first check, both have
\* returned, and both returned the mean of the first writer, which is still stored
C18_Witness ==
    \E p, q \in Workers :
        /\ p # q
        /\ r_assist[p] = r_assist[q]
        /\ r_missed[p] /\ r_missed[q]
        /\ r_pc[p] = "done" /\ r_pc[q] = "done"
        /\ r_mean[p] = p /\ r_mean[q] = p
        /\ r_assist[p] \in DOMAIN c_entries
        /\ c_entries[r_assist[p]] = p

\* ---------------------------------------------------------------------- C19
\* the cache mutexes a worker holds
HeldBy(p) ==
    {m \in {"assist"} : m_assist = p} \cup {m \in {"english"} : m_english = p}
        \cup {m \in {"sandhi"} : m_sandhi = p}

\* the step that ends the critical section a worker is in
ReleaseStep(p) ==
    \/ CheckFirst(p)
    \/ CheckSecond(p)
    \/ EnglishGet(p)
    \/ EnglishInsert(p)
    \/ FinalsGet(p)
    \/ FinalsInsert(p)

\* the mutex a worker is about to lock
WaitsFor(p) ==
    IF r_pc[p] \in {"lock_first", "lock_second"} THEN m_assist
    ELSE IF r_pc[p] \in {"english_lock_first", "english_lock_second"} THEN m_english
    ELSE IF r_pc[p] \in {"finals_lock_first", "finals_lock_second"} THEN m_sandhi
    ELSE 0

\* C19: in every interleaving of concurrent requests no thread holds two of the cache
\* mutexes (assist-text LRU, English G2P memo, sandhi finals memo) at once; a thread
\* that holds one releases it by its next step without taking another, and never
\* waits for a mutex it holds itself, so no deadlock among them is reachable.
C19_CacheMutexesAreLeaves ==
    \A p \in Workers :
        /\ Cardinality(HeldBy(p)) <= 1
        /\ HeldBy(p) # {} => WaitsFor(p) = 0 /\ ENABLED ReleaseStep(p)
        /\ WaitsFor(p) # p

\* two workers are inside critical sections of different caches at the same time,
\* each in the second critical section of its function
C19_Witness ==
    \E p, q \in Workers :
        /\ p # q
        /\ m_assist = p /\ r_pc[p] = "check_second"
        /\ m_english = q /\ r_pc[q] = "english_insert"
        /\ finals_cache # {}

\* ---------------------------------------------------------------------- C20
\* the interior positions of word2ph, and the entries the reconciliation may not touch
Interior(w) == 2..(Len(w) - 1)

Untouchable(w, text, k) == w[k] = 0 \/ is_ascii_whitespace(text[k - 1])

\* C20 (as claimed): when g2p reconciles sum(word2ph) # len(phones), an interior entry
\* that is 0 or aligned to a whitespace character comes out as it went in, in both
\* directions: only non-zero, non-whitespace-aligned interior entries are incremented
\* (sum short) or decremented (sum long).
C20_ZerosStayZero ==
    g_pc = "ok" =>
        LET w == BeforeReconcile(g_text, g_seg) IN
        \A k \in Interior(w) : Untouchable(w, g_text, k) => g_word2ph[k] = w[k]

\* C20, the decrementing direction alone: when the sum is long, interior entries that
\* are 0 or aligned to an ASCII whitespace character come out as they went in, and no
\* interior entry grows.
C20_DecrementSkipsZeros ==
    g_pc = "ok" =>
        LET w == BeforeReconcile(g_text, g_seg) IN
        Sum(w) > Len(g_phones) =>
            \A k \in Interior(w) :
                /\ g_word2ph[k] <= w[k]
                /\ Untouchable(w, g_text, k) => g_word2ph[k] = w[k]

\* C20, the incrementing direction as the code has it: when the sum is short, interior
\* entries aligned to an ASCII whitespace character come out as they went in, and no
\* interior entry shrinks.
C20_IncrementSkipsWhitespace ==
    g_pc = "ok" =>
        LET w == BeforeReconcile(g_text, g_seg) IN
        Sum(w) < Len(g_phones) =>
            \A k \in Interior(w) :
                /\ g_word2ph[k] >= w[k]
                /\ is_ascii_whitespace(g_text[k - 1]) => g_word2ph[k] = w[k]

\* ---------------------------------------------------------------------- C21
\* character i overlaps the byte range of token t (both 1-based)
Overlaps(i, t) ==
    LET c == char_spans(a_text, a_word2ph)[i] IN
    c.end > a_offsets[t][1] /\ c.start < a_offsets[t][2]

\* token t is neither the first nor the last and has offsets other than (0, 0)
CountingToken(t) ==
    t > 1 /\ t < Len(a_offsets) /\ a_offsets[t] # <<0, 0>>

\* the characters whose count went to a token before t
GivenBefore(t) ==
    {i \in 1..Len(a_text) : \E u \in 1..(t - 1) : CountingToken(u) /\ Overlaps(i, u)}

\* the counts of the characters that overlap token t and were not given before
OverlapCount(t) ==
    Sum([i \in 1..Len(a_text) |->
            IF Overlaps(i, t) /\ i \notin GivenBefore(t) THEN a_word2ph[i + 1] ELSE 0])

\* what C21 says of the tokens between the first and the last
MiddleTokensAligned ==
    \A t \in 2..(Len(a_offsets) - 1) :
        a_result[t] = IF a_offsets[t] = <<0, 0>> THEN 0 ELSE OverlapCount(t)

RECURSIVE TripleDots(_, _)
TripleDots(text, i) ==
    IF i + 2 > Len(text) THEN 0
    ELSE IF text[i] = "." /\ text[i + 1] = "." /\ text[i + 2] = "."
    THEN 1 + TripleDots(text, i + 3)
    ELSE TripleDots(text, i + 1)

\* C22 (as claimed): normalize_text rewrites every triple dot to the ellipsis
\* character and the ellipsis is kept: the output has one ellipsis per triple dot.
C22_EllipsisKept ==
    n_pc # "call" =>
        Len(SelectSeq(n_once, LAMBDA ch : ch = "ellipsis"))
            = TripleDots(replace_numbers(n_text), 1)

\* ------------------------------------------- process_sentence: syllables to phones
\* Strings are sequences of characters here. The characters of the words, each with
\* what ToPinyin gives it (None, or the plain pinyin and the pinyin with the tone
\* number at its end): two ideographs whose syllable is in the table, with and without
\* an initial; an ideograph read "m2", whose syllable is not in the table; a
\* punctuation mark and a currency sign, both without a reading.
PinyinOf ==
    [ch \in {"zh_ni", "zh_ai", "zh_m", ",", "euro"} |->
        CASE ch = "zh_ni" -> <<[plain |-> <<"n", "i">>, with_tone_num_end |-> <<"n", "i", "3">>]>>
          [] ch = "zh_ai" -> <<[plain |-> <<"a", "i">>, with_tone_num_end |-> <<"a", "i", "4">>]>>
          [] ch = "zh_m" -> <<[plain |-> <<"m">>, with_tone_num_end |-> <<"m", "2">>]>>
          [] OTHER -> <<>>]

SyllableChars == DOMAIN PinyinOf

\* g2p.rs:13-27: entries of PINYIN_TO_SYMBOL_MAP (resources/opencpop-strict.txt is not
\* part of src/; the entries are examples in its format)
PINYIN_TO_SYMBOL_MAP ==
    [key \in {<<"n", "i">>, <<"a", "i">>} |->
        IF key = <<"n", "i">> THEN <<"n", "i">> ELSE <<"AA", "ai">>]

\* g2p.rs:31-34
PINYIN_INITIALS ==
    << <<"z", "h">>, <<"c", "h">>, <<"s", "h">>, <<"b">>, <<"p">>, <<"m">>, <<"f">>, <<"d">>,
       <<"t">>, <<"n">>, <<"l">>, <<"g">>, <<"k">>, <<"h">>, <<"j">>, <<"q">>, <<"x">>, <<"r">>,
       <<"z">>, <<"c">>, <<"s">>, <<"y">>, <<"w">> >>

\* str::starts_with
starts_with(str, prefix) == IsPrefix(prefix, str)

\* g2p.rs:367-374: the first candidate that plain starts with, from candidate i on
RECURSIVE ExtractInitialFrom(_, _)
ExtractInitialFrom(plain, i) ==
    IF i > Len(PINYIN_INITIALS) THEN <<>>
    ELSE IF starts_with(plain, PINYIN_INITIALS[i]) THEN PINYIN_INITIALS[i]
    ELSE ExtractInitialFrom(plain, i + 1)

extract_initial(plain) == ExtractInitialFrom(plain, 1)

\* g2p.rs:354-365
split_initial_and_final(py, fallback_char) ==
    LET initial == extract_initial(py.plain)
        finals == SubSeq(py.with_tone_num_end, Len(initial) + 1, Len(py.with_tone_num_end))
    IN [initial |-> initial,
        final_with_tone |-> IF finals = <<>> THEN <<fallback_char>> ELSE finals]

\* g2p.rs:244-266
get_syllables(word) ==
    [k \in 1..Len(word) |->
        LET ch == word[k]
            opt == PinyinOf[ch]
        IN IF opt # <<>>
           THEN LET sp == split_initial_and_final(opt[1], ch) IN
                [ch |-> ch, initial |-> sp.initial, final_with_tone |-> sp.final_with_tone]
           ELSE [ch |-> ch, initial |-> <<ch>>, final_with_tone |-> <<ch>>]]

\* char::to_digit(10) and char::is_ascii_digit of a character of a pinyin
ToneDigits == [d \in {"1", "2", "3", "4", "5"} |->
                 CASE d = "1" -> 1 [] d = "2" -> 2 [] d = "3" -> 3 [] d = "4" -> 4 [] OTHER -> 5]

\* str::trim_end_matches(|c| c.is_ascii_digit())
RECURSIVE TrimEndDigits(_)
TrimEndDigits(str) ==
    IF str # <<>> /\ str[Len(str)] \in DOMAIN ToneDigits
    THEN TrimEndDigits(SubSeq(str, 1, Len(str) - 1))
    ELSE str

\* g2p.rs:304-312
adjust_consonant_pinyin(initial, final_body) ==
    initial \o (CASE final_body = <<"u", "e", "i">> -> <<"u", "i">>
                  [] final_body = <<"i", "o", "u">> -> <<"i", "u">>
                  [] final_body = <<"u", "e", "n">> -> <<"u", "n">>
                  [] OTHER -> final_body)

\* g2p.rs:314-335
adjust_vowel_pinyin(pinyin) ==
    CASE pinyin = <<"i", "n", "g">> -> <<"y", "i", "n", "g">>
      [] pinyin = <<"i">> -> <<"y", "i">>
      [] pinyin = <<"i", "n">> -> <<"y", "i", "n">>
      [] pinyin = <<"u">> -> <<"w", "u">>
      [] OTHER ->
           IF pinyin = <<>> THEN pinyin
           ELSE LET first == Head(pinyin)
                    rest == Tail(pinyin)
                IN CASE first = "v" -> <<"y", "u">> \o rest
                     [] first = "e" -> <<"e">> \o rest
                     [] first = "i" -> <<"y">> \o rest
                     [] first = "u" -> <<"w">> \o rest
                     [] OTHER -> pinyin

\* g2p.rs:337-339: the first characters of the entries of PUNCTUATIONS (nlp/mod.rs:9)
PunctuationFirstChars == {"!", "?", "a_circumflex", ",", ".", "'", "-"}

\* g2p.rs:273-293: the key map_syllable_to_phones looks up
PinyinKey(info) ==
    LET final_body == [k \in 1..Len(TrimEndDigits(info.final_with_tone)) |->
                          IF TrimEndDigits(info.final_with_tone)[k] = "u_umlaut"
                          THEN "v" ELSE TrimEndDigits(info.final_with_tone)[k]]
        pinyin == IF info.initial = <<>> THEN adjust_vowel_pinyin(final_body)
                  ELSE adjust_consonant_pinyin(info.initial, final_body)
    IN IF pinyin = <<>> THEN <<info.ch>> ELSE pinyin

\* g2p.rs:268-302
map_syllable_to_phones(info) ==
    IF info.initial = info.final_with_tone
    THEN [ok |-> TRUE, phones |-> <<info.ch>>, tone |-> 0]
    ELSE LET last == info.final_with_tone[Len(info.final_with_tone)]
             tone == IF last \in DOMAIN ToneDigits THEN ToneDigits[last] ELSE 0
             key == PinyinKey(info)
         IN IF key \in DOMAIN PINYIN_TO_SYMBOL_MAP
            THEN [ok |-> TRUE, phones |-> PINYIN_TO_SYMBOL_MAP[key], tone |-> tone]
            ELSE IF info.initial = <<>> /\ info.ch \in PunctuationFirstChars
            THEN [ok |-> TRUE, phones |-> <<info.ch>>, tone |-> 0]
            ELSE [ok |-> FALSE, phones |-> <<>>, tone |-> 0]

\* the longest word of the syllable mapping
MaxWord == 3

InitSyllables ==
    /\ y_word \in SeqsUpTo(SyllableChars, MaxWord)
    /\ y_syllables = <<>>
    /\ y_phones = <<>>
    /\ y_tones = <<>>
    /\ y_word2ph = <<>>
    /\ y_pc = "call"
    /\ SylOthersIdle

\* g2p.rs:203-206: get_syllables(&word); a word without syllables is skipped
GetSyllables ==
    /\ y_pc = "call"
    /\ y_syllables' = get_syllables(y_word)
    /\ y_pc' = IF y_word = <<>> THEN "ok" ELSE "mapping"
    /\ UNCHANGED <<y_word, y_phones, y_tones, y_word2ph, sylOthers>>

\* g2p.rs:221-233: one round of the loop over the syllables; `?` returns the error
MapSyllable ==
    /\ y_pc = "mapping"
    /\ LET k == Len(y_word2ph) + 1
           r == map_syllable_to_phones(y_syllables[k])
       IN IF r.ok
          THEN /\ y_phones' = y_phones \o r.phones
               /\ y_tones' = y_tones \o Repeat(r.tone, Len(r.phones))
               /\ y_word2ph' = Append(y_word2ph, Len(r.phones))
               /\ y_pc' = IF k = Len(y_syllables) THEN "ok" ELSE "mapping"
          ELSE /\ y_pc' = "err"
               /\ UNCHANGED <<y_phones, y_tones, y_word2ph>>
    /\ UNCHANGED <<y_word, y_syllables, sylOthers>>

NextSyllables == GetSyllables \/ MapSyllable

SpecSyllables == InitSyllables /\ [][NextSyllables]_vars

\* ---------------------------------------------------------------------- C23
\* the syllable of character k of the word has an entry in the table
HasEntry(k) == PinyinKey(y_syllables[k]) \in DOMAIN PINYIN_TO_SYMBOL_MAP

\* C23 (as claimed): a character whose syllable has no entry in the pinyin-to-phone
\* table is emitted as itself with tone 0 only if it is a punctuation symbol; for any
\* other such character, one without a pinyin reading included, the mapping returns
\* an error and emits no phone.
C23_OnlyPunctuationFallsBack ==
    /\ \A k \in 1..Len(y_word2ph) :
          ~HasEntry(k) => y_word[k] \in PunctuationFirstChars
    /\ y_pc = "ok" => Len(y_word2ph) = Len(y_word)
    /\ y_pc = "err" => /\ ~HasEntry(Len(y_word2ph) + 1)
                       /\ y_word[Len(y_word2ph) + 1] \notin PunctuationFirstChars

\* ------------------------------------------------------------ convert_integer
\* The 4-digit groups of the integers: zero, with and without a thousands digit, with
\* and without a zero at the end or inside; the highest group is small enough for the
\* value to be a 32-bit integer here
NumeralGroups == {0, 1, 10, 101, 110, 1000, 1001, 5010}

TopGroups == {0, 1, 10, 20}

NumeralValues ==
    {(top * 10000 + mid) * 10000 + low : top \in TopGroups, mid \in NumeralGroups, low \in NumeralGroups}

InitNumeral ==
    /\ k_value \in NumeralValues
    /\ k_result = <<>>
    /\ k_pc = "call"
    /\ NumOthersIdle

\* cn2an.rs:28-29: convert_integer(int)
ConvertInteger ==
    /\ k_pc = "call"
    /\ k_result' = convert_integer(k_value)
    /\ k_pc' = "done"
    /\ UNCHANGED <<k_value, numOthers>>

NextNumeral == ConvertInteger

SpecNumeral == InitNumeral /\ [][NextNumeral]_vars

\* ---------------------------------------------------------------------- C24
\* the 4-digit groups of value, the lowest first
GroupsOf(value) == <<value % 10000, (value \div 10000) % 10000, value \div 100000000>>

\* the numerals of value when ZeroBefore(g, i) says whether a zero precedes group i, a
\* group that is not zero and has a group above it that is not zero
NumeralsWith(value, ZeroBefore(_, _)) ==
    LET g == GroupsOf(value)
        piece(i) == IF g[i] = 0 THEN <<>>
                    ELSE (IF (\E j \in (i + 1)..Len(g) : g[j] # 0) /\ ZeroBefore(g, i)
                          THEN <<"ling">> ELSE <<>>)
                         \o convert_section(g[i]) \o SECTION_UNITS[i]
        all == piece(3) \o piece(2) \o piece(1)
    IN IF value = 0 THEN <<"ling">>
       ELSE IF Len(all) >= 2 /\ all[1] = "yi" /\ all[2] = "shi" THEN Tail(all)
       ELSE all

\* the zero rule as claimed: the group above ends with a zero and is smaller than 1000
HigherEndsWithZero(g, i) == g[i + 1] % 10 = 0 /\ g[i + 1] < 1000

\* the zero rule of the code: the group itself is smaller than 1000, or the group
\* above is zero
LowerIsShort(g, i) == g[i] < 1000 \/ g[i + 1] = 0

\* C24 (as claimed): in the numerals of an integer a zero is inserted between two
\* adjacent 4-digit groups exactly when the higher group ends with a zero and is
\* smaller than 1000.
C24_ZeroWhenHigherEndsWithZero ==
    k_pc = "done" => k_result = NumeralsWith(k_value, HigherEndsWithZero)

\* C24 (amended): a zero is inserted before a 4-digit group that has a group above
\* it exactly when the group itself is smaller than 1000 or the group just above it
\* is zero.
C24_ZeroWhenLowerIsShort ==
    k_pc = "done" => k_result = NumeralsWith(k_value, LowerIsShort)

\* C24 witness: the numerals of an integer of three groups with a zero before its
\* lowest group, which is smaller than 1000, and none before its middle group,
\* although the highest group ends with a zero
C24_Witness ==
    /\ k_pc = "done"
    /\ GroupsOf(k_value)[3] = 10
    /\ GroupsOf(k_value)[2] = 5010
    /\ GroupsOf(k_value)[1] = 1
    /\ k_result = <<"shi", "yi4", "wu", "qian", "ling", "yi", "shi", "wan", "ling", "yi">>

\* ------------------------------------------------------- ToneSandhi::modified_tone
\* The characters of the words, by their pinyin, each with the final that
\* finals_with_tone gives it (g2p.rs:341-352): 不 一 你 好 对 头 的, and the comma,
\* which has no reading and is its own final
FinalOf ==
    [ch \in {"bu", "yi", "ni", "hao", "dui", "tou", "de", "comma"} |->
        CASE ch = "bu" -> <<"u", "4">>
          [] ch = "yi" -> <<"i", "1">>
          [] ch = "ni" -> <<"i", "3">>
          [] ch = "hao" -> <<"a", "o", "3">>
          [] ch = "dui" -> <<"u", "i", "4">>
          [] ch = "tou" -> <<"o", "u", "2">>
          [] ch = "de" -> <<"e", "5">>
          [] OTHER -> <<"comma">>]

SandhiChars == DOMAIN FinalOf

\* the part-of-speech tags of the words: a verb and an adverb
SandhiPos == {"v", "d"}

\* tone_sandhi.rs:24-69: the entries of MUST_NEUTRAL_TONE_WORDS among the words of
\* SandhiChars (对头)
MUST_NEUTRAL_TONE_WORDS == {<<"dui", "tou">>}

\* tone_sandhi.rs:72-78: the entries of MUST_NOT_NEUTRAL_TONE_WORDS among the words
\* of SandhiChars (none of 男子 女子 分子 原子 量子 莲子 石子 瓜子 电子 人人 虎虎)
MUST_NOT_NEUTRAL_TONE_WORDS == {}

\* tone_sandhi.rs:81: the characters of PUNC among SandhiChars
PUNC == {"comma"}

\* the characters of the closed sets of neutral_sandhi among SandhiChars
\* (tone_sandhi.rs:140-156): of 的地得; none of the other sets
DeDeDi == {"de"}

SandhiDigits == {"0", "1", "2", "3", "4", "5", "6", "7", "8", "9"}

\* tone_sandhi.rs:582-584
tone_of(syllable) == IF syllable = <<>> THEN "5" ELSE syllable[Len(syllable)]

\* set_tone that never looks for a digit to replace
set_tone_AlwaysAppend(syllable, tone) == Append(syllable, tone)

\* tone_sandhi.rs:586-596
set_tone(syllable, tone) ==
    IF syllable # <<>> /\ syllable[Len(syllable)] \in SandhiDigits
    THEN [syllable EXCEPT ![Len(syllable)] = tone]
    ELSE Append(syllable, tone)

\* `if let Some(f) = finals.get_mut(i) { *f = set_tone(f, tone) }`, i counted from 1
SetToneAt(finals, i, tone) ==
    IF i >= 1 /\ i <= Len(finals) THEN [finals EXCEPT ![i] = set_tone(@, tone)] ELSE finals

\* tone_sandhi.rs:559-561
all_tone_three(finals) == \A k \in 1..Len(finals) : tone_of(finals[k]) = "3"

\* bu_sandhi without the case of the 3-character word
bu_sandhi_NoMiddle(word, finals) ==
    [i \in 1..Len(finals) |->
        IF i <= Len(word) /\ word[i] = "bu" /\ i + 1 <= Len(word) /\ i + 1 <= Len(finals)
           /\ tone_of(finals[i + 1]) = "4"
        THEN set_tone(finals[i], "2") ELSE finals[i]]

\* tone_sandhi.rs:222-245; round i of the loop reads the final after i, which no
\* earlier round has written
bu_sandhi(word, finals) ==
    IF Len(word) = 3 /\ word[2] = "bu" THEN SetToneAt(finals, 2, "5")
    ELSE [i \in 1..Len(finals) |->
            IF i <= Len(word) /\ word[i] = "bu" /\ i + 1 <= Len(word) /\ i + 1 <= Len(finals)
               /\ tone_of(finals[i + 1]) = "4"
            THEN set_tone(finals[i], "2") ELSE finals[i]]

\* tone_sandhi.rs:247-295 (no character of SandhiChars is an ASCII digit or 第)
yi_sandhi(word, finals) ==
    IF (\E k \in 1..Len(word) : word[k] = "yi") /\ (\A k \in 1..Len(word) : word[k] = "yi")
    THEN finals
    ELSE IF Len(word) = 3 /\ word[2] = "yi" /\ word[1] = word[3]
    THEN SetToneAt(finals, 2, "5")
    ELSE [i \in 1..Len(finals) |->
            IF i <= Len(word) /\ word[i] = "yi" /\ i + 1 <= Len(word) /\ i + 1 <= Len(finals)
            THEN IF tone_of(finals[i + 1]) = "4" THEN set_tone(finals[i], "2")
                 ELSE IF word[i + 1] \notin PUNC THEN set_tone(finals[i], "4")
                 ELSE finals[i]
            ELSE finals[i]]

\* the non-empty contiguous substrings of word: what the search-mode tokenizer can
\* give split_word as its shortest token (tone_sandhi.rs:299-311)
Substrings(word) ==
    {SubSeq(word, a, b) : a \in 1..Len(word), b \in 1..Len(word)} \ {<<>>}

\* str::find, counted from 0: the first place where sub occurs in word
find(word, sub) ==
    CHOOSE a \in 0..(Len(word) - Len(sub)) :
        /\ SubSeq(word, a + 1, a + Len(sub)) = sub
        /\ \A b \in 0..(a - 1) : SubSeq(word, b + 1, b + Len(sub)) # sub

\* tone_sandhi.rs:297-328, first_subword the shortest token of the tokenizer
split_word(word, first_subword) ==
    IF find(word, first_subword) = 0
    THEN <<first_subword, SubSeq(word, Len(first_subword) + 1, Len(word))>>
    ELSE <<SubSeq(word, 1, Len(word) - Len(first_subword)), first_subword>>

\* MUST_NEUTRAL_TONE_WORDS holds the word or its last two characters
\* (tone_sandhi.rs:189-193, 207-212)
MustNeutral(word) ==
    \/ word \in MUST_NEUTRAL_TONE_WORDS
    \/ Len(word) >= 2 /\ SubSeq(word, Len(word) - 1, Len(word)) \in MUST_NEUTRAL_TONE_WORDS

\* tone_sandhi.rs:119-134: the reduplication of a noun, verb or adjective
NeutralReduplication(word, pos, finals) ==
    IF word # <<>> /\ word \notin MUST_NOT_NEUTRAL_TONE_WORDS /\ pos \in {"n", "v", "a"}
    THEN [j \in 1..Len(finals) |->
            IF j >= 2 /\ j <= Len(word) /\ word[j] = word[j - 1]
            THEN set_tone(finals[j], "5") ELSE finals[j]]
    ELSE finals

\* tone_sandhi.rs:137-199: the last character of the word; of the five closed sets
\* only 的地得 has a character in SandhiChars, and 个 is none of them
NeutralLast(word, finals) ==
    IF Len(word) >= 1
    THEN IF word[Len(word)] \in DeDeDi THEN SetToneAt(finals, Len(finals), "5")
         ELSE IF MustNeutral(word) THEN SetToneAt(finals, Len(finals), "5")
         ELSE finals
    ELSE finals

\* tone_sandhi.rs:201-218: the two sub-words
NeutralSubWords(word, finals, first_subword) ==
    LET word_list == split_word(word, first_subword)
        first_len == Len(word_list[1])
        finals_list == <<SubSeq(finals, 1, first_len), SubSeq(finals, first_len + 1, Len(finals))>>
        part(i) == IF MustNeutral(word_list[i])
                   THEN SetToneAt(finals_list[i], Len(finals_list[i]), "5")
                   ELSE finals_list[i]
    IN part(1) \o part(2)

\* tone_sandhi.rs:115-220
neutral_sandhi(word, pos, finals, first_subword) ==
    NeutralSubWords(word, NeutralLast(word, NeutralReduplication(word, pos, finals)),
                    first_subword)

\* tone_sandhi.rs:347-366: the two sub-lists of a 3-character word that is not all
\* of tone 3, round 0 and then round 1 of the loop
ThreeSubLists(finals_list) ==
    LET r0 == IF all_tone_three(finals_list[1]) /\ Len(finals_list[1]) = 2
              THEN <<SetToneAt(finals_list[1], 1, "2"), finals_list[2]>>
              ELSE finals_list
        sub == r0[2]
    IN IF all_tone_three(sub) /\ Len(sub) = 2
       THEN <<r0[1], SetToneAt(sub, 1, "2")>>
       ELSE IF ~all_tone_three(sub) /\ tone_of(sub[1]) = "3"
               /\ tone_of(r0[1][Len(r0[1])]) = "3"
       THEN <<SetToneAt(r0[1], Len(r0[1]), "2"), sub>>
       ELSE r0

\* three_sandhi that leaves a word of two characters alone
three_sandhi_NoPair(word, finals, first_subword) ==
    IF Len(word) = 2 THEN finals
    ELSE IF Len(word) = 4 /\ Len(finals) = 4
    THEN (IF all_tone_three(SubSeq(finals, 1, 2)) THEN SetToneAt(SubSeq(finals, 1, 2), 1, "2")
          ELSE SubSeq(finals, 1, 2))
         \o (IF all_tone_three(SubSeq(finals, 3, 4)) THEN SetToneAt(SubSeq(finals, 3, 4), 1, "2")
             ELSE SubSeq(finals, 3, 4))
    ELSE finals

\* tone_sandhi.rs:330-390
three_sandhi(word, finals, first_subword) ==
    IF Len(word) = 2 /\ all_tone_three(finals) THEN SetToneAt(finals, 1, "2")
    ELSE IF Len(word) = 3
    THEN LET first_len == Len(split_word(word, first_subword)[1]) IN
         IF all_tone_three(finals)
         THEN IF first_len = 2 /\ Len(finals) >= 2
              THEN SetToneAt(SetToneAt(finals, 1, "2"), 2, "2")
              ELSE IF first_len = 1 /\ Len(finals) >= 2 THEN SetToneAt(finals, 2, "2")
              ELSE finals
         ELSE IF first_len < Len(finals)
              THEN LET l == ThreeSubLists(<<SubSeq(finals, 1, first_len),
                                            SubSeq(finals, first_len + 1, Len(finals))>>)
                   IN l[1] \o l[2]
              ELSE finals
    ELSE IF Len(word) = 4 /\ Len(finals) = 4
    THEN (IF all_tone_three(SubSeq(finals, 1, 2)) THEN SetToneAt(SubSeq(finals, 1, 2), 1, "2")
          ELSE SubSeq(finals, 1, 2))
         \o (IF all_tone_three(SubSeq(finals, 3, 4)) THEN SetToneAt(SubSeq(finals, 3, 4), 1, "2")
             ELSE SubSeq(finals, 3, 4))
    ELSE finals

\* tone_sandhi.rs:95-101: the finals before the last step, and the result
BeforeThreeSandhi(word, pos, finals, first_subword) ==
    neutral_sandhi(word, pos, yi_sandhi(word, bu_sandhi(word, finals)), first_subword)

modified_tone(word, pos, finals, first_subword) ==
    three_sandhi(word, BeforeThreeSandhi(word, pos, finals, first_subword), first_subword)

\* ------------------------------------------------------------ modified_tone
MaxSandhiWord == 4

SandhiWords == UNION {[1..n -> SandhiChars] : n \in 1..MaxSandhiWord}

\* g2p.rs:207-219: one final per character of the word
FinalsOf(word) == [k \in 1..Len(word) |-> FinalOf[word[k]]]

InitSandhi ==
    /\ SandhiOthersIdle
    /\ t_word \in SandhiWords
    /\ t_pos \in SandhiPos
    /\ t_finals = FinalsOf(t_word)
    /\ t_first = <<>>
    /\ t_before = <<>>
    /\ t_result = <<>>
    /\ t_pc = "call"

\* tone_sandhi.rs:95-101, with the token the tokenizer gives split_word
ModifiedTone ==
    /\ t_pc = "call"
    /\ \E first_subword \in Substrings(t_word) :
          /\ t_first' = first_subword
          /\ t_before' = BeforeThreeSandhi(t_word, t_pos, t_finals, first_subword)
          /\ t_result' = modified_tone(t_word, t_pos, t_finals, first_subword)
    /\ t_pc' = "done"
    /\ UNCHANGED <<t_word, t_pos, t_finals, sandhiOthers>>

NextSandhi == ModifiedTone

SpecSandhi == InitSandhi /\ [][NextSandhi]_vars

\* the word is a 3-character A不B
MiddleBu == Len(t_word) = 3 /\ t_word[2] = "bu"

\* 不 at place i is directly followed by a syllable of tone 4
BuBeforeFourth(i) ==
    /\ i < Len(t_word)
    /\ t_word[i] = "bu"
    /\ tone_of(t_finals[i + 1]) = "4"

\* C25 as stated: in the finals modified_tone returns, every 不 that is directly
\* followed by a tone-4 syllable has tone 2, except in a 3-character A不B, whose
\* middle syllable has tone 5.
C25_BuSandhi ==
    t_pc = "done" =>
        /\ ~MiddleBu =>
              \A i \in 1..Len(t_word) : BuBeforeFourth(i) => tone_of(t_result[i]) = "2"
        /\ MiddleBu => tone_of(t_result[2]) = "5"

\* 不 at place i is the second of two equal characters in a noun, verb or adjective
\* (tone_sandhi.rs:119-134)
Reduplicated(i) ==
    /\ i >= 2
    /\ t_word[i] = t_word[i - 1]
    /\ t_pos \in {"n", "v", "a"}
    /\ t_word \notin MUST_NOT_NEUTRAL_TONE_WORDS

\* C25 amended: in the finals modified_tone returns, every 不 that is directly
\* followed by a tone-4 syllable has tone 2, or tone 5 when it is the second of a
\* reduplication that the neutral step reaches; the middle syllable of a
\* 3-character A不B has tone 5.
C25_BuSandhiUnlessReduplicated ==
    t_pc = "done" =>
        /\ ~MiddleBu =>
              \A i \in 1..Len(t_word) :
                  BuBeforeFourth(i) =>
                      tone_of(t_result[i]) = (IF Reduplicated(i) THEN "5" ELSE "2")
        /\ MiddleBu => tone_of(t_result[2]) = "5"

C25_Witness ==
    /\ t_pc = "done"
    /\ t_word = <<"bu", "dui">>
    /\ t_finals[1] = <<"u", "4">>
    /\ t_result[1] = <<"u", "2">>

\* C26: for every 2-character word whose two finals both carry tone 3 when the
\* three-sandhi step runs, modified_tone returns the first final with tone 2 and
\* the second still with tone 3.
C26_ThirdTonePair ==
    (t_pc = "done" /\ Len(t_word) = 2 /\ all_tone_three(t_before)) =>
        /\ Len(t_result) = 2
        /\ tone_of(t_result[1]) = "2"
        /\ tone_of(t_result[2]) = "3"
        /\ t_result = SetToneAt(t_before, 1, "2")

C26_Witness ==
    /\ t_pc = "done"
    /\ t_word = <<"ni", "hao">>
    /\ t_before = <<<<"i", "3">>, <<"a", "o", "3">>>>
    /\ t_result = <<<<"i", "2">>, <<"a", "o", "3">>>>

\* a final without its trailing tone digit
Body(final) ==
    IF final # <<>> /\ final[Len(final)] \in SandhiDigits
    THEN SubSeq(final, 1, Len(final) - 1) ELSE final

\* the final is the same, or only its tone digit was replaced or appended
OnlyToneChanged(before, after) ==
    \/ after = before
    \/ \E d \in SandhiDigits : after = Append(Body(before), d)

\* C29: modified_tone returns as many finals as it was given, and each returned
\* final equals the given one except possibly for its trailing tone digit,
\* replaced, or appended when the final had none.
C29_OnlyTonesChange ==
    t_pc = "done" =>
        /\ Len(t_result) = Len(t_finals)
        /\ \A k \in 1..Len(t_finals) : OnlyToneChanged(t_finals[k], t_result[k])

C29_Witness ==
    /\ t_pc = "done"
    /\ \E k \in 1..Len(t_finals) :
          Body(t_finals[k]) # t_finals[k] /\ t_result[k] # t_finals[k]
    /\ \E k \in 1..Len(t_finals) :
          Body(t_finals[k]) = t_finals[k] /\ t_result[k] # t_finals[k]

\* ------------------------------------------------------------ style ids
MaxStyles == 2

\* constants.rs:43
DEFAULT_STYLE == "Neutral"

\* the style names config.json can give
StyleNames == {"Neutral", "Happy"}

\* usize::to_string of the small indices
DecimalNames == <<"0", "1", "2", "3", "4", "5">>

IndexName(idx) == DecimalNames[idx + 1]

\* (0..n).map(|idx| (idx.to_string(), idx)).collect()
IndexStyles(n) ==
    [name \in {IndexName(idx) : idx \in 0..(n - 1)} |->
        CHOOSE idx \in 0..(n - 1) : IndexName(idx) = name]

\* what config.json can hold: ids up to one past the largest row count
ConfigStyle2id == UNION {[names -> 0..(MaxStyles + 1)] : names \in SUBSET StyleNames}

\* config.rs:41-63: num_styles and style2id after load_from_file
load_from_file(hps) ==
    LET num_styles == IF hps.num_styles = 0
                      THEN (IF Cardinality(DOMAIN hps.style2id) > 1
                            THEN Cardinality(DOMAIN hps.style2id) ELSE 1)
                      ELSE hps.num_styles
    IN [num_styles |-> num_styles,
        style2id |-> IF DOMAIN hps.style2id = {} THEN IndexStyles(num_styles)
                     ELSE hps.style2id]

\* the clamp that is left out
ClampStyleId_Keep(v, num_styles) == v

\* model/mod.rs:116, 130: (*v).min(num_styles - 1)
ClampStyleId(v, num_styles) == Min(v, num_styles - 1)

\* model/mod.rs:110-118
LoadStyle2id(hps, num_styles) ==
    IF DOMAIN hps.style2id = {} THEN IndexStyles(num_styles)
    ELSE [name \in DOMAIN hps.style2id |-> ClampStyleId(hps.style2id[name], num_styles)]

\* model/mod.rs:126-130
LoadDefaultStyleId(style2id, num_styles) ==
    ClampStyleId(IF DEFAULT_STYLE \in DOMAIN style2id THEN style2id[DEFAULT_STYLE] ELSE 0,
                 num_styles)

InitStyle ==
    /\ StyleOthersIdle
    /\ StyleIdle

\* model/mod.rs:95-131: TtsProject::load as far as the styles go
LoadProject ==
    /\ s_pc = "idle"
    /\ \E style2id \in ConfigStyle2id, num_styles \in 0..(MaxStyles + 1), rows \in 0..MaxStyles :
          LET hps == load_from_file([style2id |-> style2id, num_styles |-> num_styles]) IN
          /\ s_hps' = [style2id |-> style2id, num_styles |-> num_styles]
          /\ s_rows' = rows
          /\ IF rows = 0
             THEN /\ s_pc' = "failed"
                  /\ UNCHANGED <<s_style2id, s_default>>
             ELSE /\ s_pc' = "loaded"
                  /\ s_style2id' = LoadStyle2id(hps, rows)
                  /\ s_default' = LoadDefaultStyleId(LoadStyle2id(hps, rows), rows)
    /\ UNCHANGED <<s_name, s_out, styleOthers>>

\* the style names a request can carry: None, a configured or index name, an unknown one
RequestStyles ==
    {<<>>} \cup {<<name>> : name \in StyleNames \cup {"0", "1", "Sad"}}

\* model/mod.rs:342-357
make_style_vector(style_name) ==
    IF style_name # <<>> /\ style_name[1] \notin DOMAIN s_style2id THEN "not found"
    ELSE LET style_id == IF style_name = <<>> THEN s_default ELSE s_style2id[style_name[1]] IN
         IF style_id >= s_rows THEN "out of range" ELSE "ok"

MakeStyleVector ==
    /\ s_pc = "loaded"
    /\ \E style_name \in RequestStyles :
          /\ s_name' = style_name
          /\ s_out' = make_style_vector(style_name)
    /\ UNCHANGED <<s_hps, s_rows, s_style2id, s_default, s_pc, styleOthers>>

NextStyle == LoadProject \/ MakeStyleVector

SpecStyle == InitStyle /\ [][NextStyle]_vars

\* C27: after a successful load every value of style2id and the default style id
\* lie in 0..num_styles-1, num_styles the row count of the style matrix, and
\* make_style_vector never answers 'style id out of range'.
C27_StyleIdsInRange ==
    s_pc = "loaded" =>
        /\ \A name \in DOMAIN s_style2id : s_style2id[name] \in 0..(s_rows - 1)
        /\ s_default \in 0..(s_rows - 1)
        /\ s_out # "out of range"

\* a configured id beyond the matrix was clamped, and a request for that style and
\* the default both went through
C27_Witness ==
    /\ s_pc = "loaded"
    /\ s_rows = 2
    /\ "Happy" \in DOMAIN s_hps.style2id
    /\ s_hps.style2id["Happy"] = 3
    /\ s_style2id["Happy"] = 1
    /\ s_name = <<"Happy">>
    /\ s_out = "ok"

\* ------------------------------------------------------------ pre_merge_for_modify
MaxMergeSeg == 3

\* the characters of the words: 不 一 对 你 好 儿
MergeChars == {"bu", "yi", "dui", "ni", "hao", "er"}

\* what the tagger can give: the single characters and 你好
MergeWords == {<<ch>> : ch \in MergeChars} \cup {<<"ni", "hao">>}

MergePos == {"v", "n"}

\* tone_sandhi.rs:8-22: the finals of a word, one per character
finals_tone3_for_word(word) ==
    [k \in 1..Len(word) |-> IF word[k] = "er" THEN <<"e", "r", "2">> ELSE FinalOf[word[k]]]

Pair(word, pos) == [word |-> word, pos |-> pos]

\* last.0 = f(last.0) on a non-empty new_seg
WithLastWord(new_seg, word) ==
    [new_seg EXCEPT ![Len(new_seg)] = Pair(word, @.pos)]

LastWord(new_seg) == new_seg[Len(new_seg)].word

\* tone_sandhi.rs:401-414; i counts from 1
RECURSIVE MergeBuLoop(_, _, _, _)
MergeBuLoop(seg, i, new_seg, last_word) ==
    IF i > Len(seg)
    THEN IF last_word = <<"bu">> THEN Append(new_seg, Pair(last_word, "d")) ELSE new_seg
    ELSE LET w == IF last_word = <<"bu">> THEN last_word \o seg[i].word ELSE seg[i].word IN
         MergeBuLoop(seg, i + 1,
                     IF w # <<"bu">> THEN Append(new_seg, Pair(w, seg[i].pos)) ELSE new_seg,
                     w)

\* tone_sandhi.rs:397-417
merge_bu(seg) == MergeBuLoop(seg, 1, <<>>, <<>>)

\* tone_sandhi.rs:425-447, function 1; i counts from 0 as in the code
RECURSIVE MergeYiFirst(_, _, _)
MergeYiFirst(seg, i, new_seg) ==
    IF i >= Len(seg) THEN new_seg
    ELSE LET word == seg[i + 1].word
             pos == seg[i + 1].pos
         IN IF /\ i >= 1
               /\ i + 1 < Len(seg)
               /\ word = <<"yi">>
               /\ seg[i].word = seg[i + 2].word
               /\ seg[i].pos = "v"
            THEN MergeYiFirst(seg, i + 2,
                              IF new_seg # <<>>
                              THEN WithLastWord(new_seg, LastWord(new_seg) \o <<"yi">>
                                                         \o LastWord(new_seg))
                              ELSE new_seg)
            ELSE IF i >= 2 /\ seg[i].word = <<"yi">> /\ seg[i - 1].word = word /\ pos = "v"
            THEN MergeYiFirst(seg, i + 1, new_seg)
            ELSE MergeYiFirst(seg, i + 1, Append(new_seg, Pair(word, pos)))

\* tone_sandhi.rs:450-463, function 2
RECURSIVE MergeYiSecond(_, _, _)
MergeYiSecond(seg2, i, result) ==
    IF i > Len(seg2) THEN result
    ELSE IF result # <<>> /\ LastWord(result) = <<"yi">>
    THEN MergeYiSecond(seg2, i + 1, WithLastWord(result, LastWord(result) \o seg2[i].word))
    ELSE MergeYiSecond(seg2, i + 1, Append(result, seg2[i]))

\* tone_sandhi.rs:420-465
merge_yi(seg) ==
    MergeYiSecond(SelectSeq(MergeYiFirst(seg, 0, <<>>), LAMBDA p : p.word # <<>>), 1, <<>>)

\* tone_sandhi.rs:565-579
RECURSIVE MergeReduplicationLoop(_, _, _)
MergeReduplicationLoop(seg, i, new_seg) ==
    IF i > Len(seg) THEN new_seg
    ELSE IF new_seg # <<>> /\ LastWord(new_seg) = seg[i].word
    THEN MergeReduplicationLoop(seg, i + 1,
                                WithLastWord(new_seg, LastWord(new_seg) \o seg[i].word))
    ELSE MergeReduplicationLoop(seg, i + 1, Append(new_seg, seg[i]))

merge_reduplication(seg) == MergeReduplicationLoop(seg, 1, <<>>)

\* tone_sandhi.rs:501-504
is_reduplication(word) == Len(word) = 2 /\ word[1] = word[2]

\* tone_sandhi.rs:477-480: the finals of both words are all of tone 3
BothAllThree(seg, i) ==
    /\ all_tone_three(finals_tone3_for_word(seg[i - 1].word))
    /\ all_tone_three(finals_tone3_for_word(seg[i].word))

\* tone_sandhi.rs:517-528: tone 3 on both sides of the boundary
BoundaryThree(seg, i) ==
    LET left == finals_tone3_for_word(seg[i - 1].word)
        right == finals_tone3_for_word(seg[i].word)
    IN /\ left # <<>> /\ tone_of(left[Len(left)]) = "3"
       /\ right # <<>> /\ tone_of(right[1]) = "3"

\* tone_sandhi.rs:476-498 and 516-546, the loop both variants share; i counts from 1,
\* merge_last holds the places whose word was merged, boundary tells the variant
RECURSIVE MergeThreeLoop(_, _, _, _, _)
MergeThreeLoop(seg, i, new_seg, merge_last, boundary) ==
    IF i > Len(seg) THEN new_seg
    ELSE IF /\ i >= 2
            /\ (IF boundary THEN BoundaryThree(seg, i) ELSE BothAllThree(seg, i))
            /\ (i - 1) \notin merge_last
            /\ new_seg # <<>>
            /\ ~is_reduplication(LastWord(new_seg))
            /\ Len(LastWord(new_seg)) + Len(seg[i].word) <= 3
    THEN MergeThreeLoop(seg, i + 1, WithLastWord(new_seg, LastWord(new_seg) \o seg[i].word),
                        merge_last \cup {i}, boundary)
    ELSE MergeThreeLoop(seg, i + 1, Append(new_seg, seg[i]), merge_last, boundary)

\* tone_sandhi.rs:467-499
merge_continuous_three_tones(seg) == MergeThreeLoop(seg, 1, <<>>, {}, FALSE)

\* tone_sandhi.rs:506-549
merge_continuous_three_tones_2(seg) == MergeThreeLoop(seg, 1, <<>>, {}, TRUE)

\* tone_sandhi.rs:551-563; no word of the model is "#"
RECURSIVE MergeErLoop(_, _, _)
MergeErLoop(seg, i, new_seg) ==
    IF i > Len(seg) THEN new_seg
    ELSE IF i >= 2 /\ seg[i].word = <<"er">> /\ new_seg # <<>>
    THEN MergeErLoop(seg, i + 1, WithLastWord(new_seg, LastWord(new_seg) \o <<"er">>))
    ELSE MergeErLoop(seg, i + 1, Append(new_seg, seg[i]))

merge_er(seg) == MergeErLoop(seg, 1, <<>>)

\* tone_sandhi.rs:105-113
pre_merge_for_modify(seg) ==
    merge_er(merge_continuous_three_tones_2(merge_continuous_three_tones(
        merge_reduplication(merge_yi(merge_bu(seg))))))

MergeSegs ==
    UNION {[1..n -> {Pair(word, pos) : word \in MergeWords, pos \in MergePos}] :
             n \in 0..MaxMergeSeg}

InitMerge ==
    /\ MergeOthersIdle
    /\ p_seg \in MergeSegs
    /\ p_out = <<>>
    /\ p_pc = "call"

\* g2p.rs:179: the tagged words of a sentence go through the pre-merge
PreMerge ==
    /\ p_pc = "call"
    /\ p_out' = pre_merge_for_modify(p_seg)
    /\ p_pc' = "done"
    /\ UNCHANGED <<p_seg, mergeOthers>>

NextMerge == PreMerge

SpecMerge == InitMerge /\ [][NextMerge]_vars

\* the words of a sequence of pairs, one after the other
RECURSIVE ConcatWords(_)
ConcatWords(seg) ==
    IF seg = <<>> THEN <<>> ELSE Head(seg).word \o ConcatWords(Tail(seg))

\* C28: the concatenation of the words pre_merge_for_modify returns equals the
\* concatenation of the words it was given: no character is dropped, duplicated
\* or reordered.
C28_OnlyRegroups ==
    p_pc = "done" => ConcatWords(p_out) = ConcatWords(p_seg)

\* 一 stands as a word between two equal words
YiBetweenEqualWords ==
    \E i \in 2..(Len(p_seg) - 1) :
        p_seg[i].word = <<"yi">> /\ p_seg[i - 1].word = p_seg[i + 1].word

\* C28, the part that holds: without a 一 between two equal words the pre-merge
\* only regroups.
C28_RegroupsWithoutYiPattern ==
    (p_pc = "done" /\ ~YiBetweenEqualWords) => ConcatWords(p_out) = ConcatWords(p_seg)

\* ------------------------------------------------ the representation of AssistCache
\* the recency queue holds exactly the keys of entries, each once
OrderMatchesEntries ==
    /\ {c_order[i] : i \in 1..Len(c_order)} = DOMAIN c_entries
    /\ Len(c_order) = Cardinality(DOMAIN c_entries)

\* a step of get that misses: an operation was counted and no key was used (an
\* insert and a get that hits record the key in c_used)
GetMissStep ==
    /\ c_clock' = c_clock + 1
    /\ c_used' = c_used

\* C30: after any sequence of get and insert operations the recency queue holds
\* exactly the keys of entries, each exactly once, and a get that misses changes
\* neither entries nor order.
C30_CacheRepresentation ==
    /\ []OrderMatchesEntries
    /\ [][GetMissStep => (c_entries' = c_entries /\ c_order' = c_order)]_vars

\* C30 witness: a cache of capacity 2 after a get hit (a resident key used after its
\* value was made), an eviction (more keys inserted than are resident) and, as the
\* latest operation, a get that missed
C30_Witness ==
    /\ c_capacity = 2
    /\ Len(c_order) = 2
    /\ Cardinality(InsertedKeys) > 2
    /\ \E a \in DOMAIN c_entries : c_entries[a] < c_used[a]
    /\ c_clock > 0
    /\ \A k \in CacheKeys : c_used[k] # c_clock

====
